---- MODULE Spec2Model ----
(***************************************************************************)
(* Attendance capture and offline-sync protocol of SRM.                    *)
(*                                                                         *)
(*   server  : backend/index.js (src/unnamed/part_002), the attendance     *)
(*             table and the handlers of POST /api/v1/attendance/mark      *)
(*             and POST /api/v1/attendance/sync                            *)
(*   client  : attendance_app/scanner.js, patched variant                  *)
(*             (src/unnamed/part_000): debounce map, localStorage queue,   *)
(*             markAttendanceForLabel, syncOfflineQueue, session submit    *)
(*                                                                         *)
(* Times are milliseconds (Date.now()); a date is the UTC day number that  *)
(* new Date().toISOString().slice(0,10) names.  Confidences are            *)
(* thousandths, distances ten-thousandths.                                 *)
(***************************************************************************)
EXTENDS Integers, Sequences, FiniteSets, TLC

VARIABLES
    now,              \* the wall clock, Date.now()
    net,              \* TRUE when the server is reachable from the client
    dbOk,             \* TRUE when pool.query succeeds
    store,            \* rows of the attendance table, in insertion order
    reqs,             \* HTTP requests in flight, by slot
    labelToStudentId, \* scanner: Map label -> student id
    faceMatcher,      \* scanner: the labels the matcher knows; {} is null
    detectInterval,   \* scanner: TRUE when the detection timer is scheduled
    recentMarks,      \* scanner: label -> time of the last accepted mark
    queue,            \* scanner: localStorage 'offline_attendance'
    sessionMarked,    \* scanner: the ids marked in this session, in insertion order
    lastCall,         \* the last mark call of a caller that makes them one by one
    lastDet,          \* the last detection passed to markAttendanceForLabel
    lastRet,          \* the last return of markAttendanceForLabel from its request
    lastSync,         \* the last batch the sync handler was given
    lastFlush,        \* the last return of syncOfflineQueue from its request
    stream,           \* scanner: the camera stream the page refers to
    lostStreams,      \* scanner: live camera streams the page no longer refers to
    scans,            \* scanner: timer callbacks running, not awaiting a mark
    srmDurable,       \* batch scanner: TRUE when window.srmDB is the IndexedDB one
    srmQueue,         \* batch scanner: the records window.srmDB holds
    detectionsInterval, \* batch scanner: TRUE when its timer is scheduled
    stream1,          \* batch scanner: the camera stream it refers to
    lastScan,         \* batch scanner: the time of the last scan that passed the throttle
    steps1,           \* batch scanner: timer callbacks running, not awaiting the request
    faceMatcher1,     \* batch scanner: TRUE when its matcher is built
    lostStreams1,     \* batch scanner: live camera streams it no longer refers to
    valid,            \* scanner: the faces the running callback has still to match
    cbStep,           \* scanner: where that callback is: idle, loop or await
    cbDone,           \* the faces that callback has given to the matcher
    statusLine,       \* the text the callback last wrote to the status element
    faceEmbeddings,   \* rows of the face_embeddings table, in insertion order
    studentRows,      \* rows of the students table, in insertion order
    lastAdd,          \* the last call of addStudent and what it returned
    embQueue,         \* add-student page: localStorage 'srm:embQueue'
    embSync           \* add-student page: the run of trySyncEmbQueue

vars == <<now, net, dbOk, store, reqs, labelToStudentId, faceMatcher,
          detectInterval, recentMarks, queue, sessionMarked, lastCall, lastDet,
          lastRet, lastSync, lastFlush, stream, lostStreams, scans, srmDurable,
          srmQueue, detectionsInterval, stream1, lastScan, steps1,
          faceMatcher1, lostStreams1, valid, cbStep, cbDone, statusLine,
          faceEmbeddings, studentRows, lastAdd, embQueue, embSync>>

\* The timer callback of the marking scanner followed face by face.
frameVars == <<valid, cbStep, cbDone, statusLine>>

\* The student and descriptor tables and the add-student page.
adminVars == <<faceEmbeddings, studentRows, lastAdd, embQueue, embSync>>

\* The state of the capture loops and of the batch scanner's queue.
captureVars == <<stream, lostStreams, scans, srmDurable, srmQueue,
                 detectionsInterval, stream1, lastScan, steps1, faceMatcher1,
                 lostStreams1, frameVars, adminVars>>

\* The state of the marking scanner.
pageVars == <<labelToStudentId, faceMatcher, detectInterval, recentMarks, queue,
              sessionMarked, stream, lostStreams, scans>>

\* The logs.
logVars == <<lastCall, lastDet, lastRet, lastSync, lastFlush>>

(***************************************************************************)
(* Bounds of the model.                                                    *)
(***************************************************************************)
MaxStore == 2       \* rows the attendance table may hold
MaxQueue == 2       \* records the offline queue may hold
MaxReqs == 2        \* requests in flight at once
MaxTicks == 2       \* clock ticks within one day
MaxDay == 2         \* last day the clock reaches
TickMs == 22500     \* one clock tick
MaxScans == 2       \* scan steps in flight at once
MaxLost == 1        \* live camera streams a page may have lost track of
MaxBatch == 2       \* records of a sync request of another caller

(***************************************************************************)
(* JavaScript values of a request's student_id field.                      *)
(***************************************************************************)
Num(k) == [t |-> "number", n |-> k, s |-> ""]
Str(x) == [t |-> "string", n |-> 0, s |-> x]
Bool(b) == [t |-> "boolean", n |-> IF b THEN 1 ELSE 0, s |-> ""]
Null == [t |-> "null", n |-> 0, s |-> ""]
Undefined == [t |-> "undefined", n |-> 0, s |-> ""]
NaN == [t |-> "NaN", n |-> 0, s |-> ""]

\* ToBoolean: what `x ? a : b`, `!x` and `x || y` test.
Truthy(v) ==
    CASE v.t = "number" -> v.n # 0
      [] v.t = "string" -> v.s # ""
      [] v.t = "boolean" -> v.n = 1
      [] OTHER -> FALSE

Digits == "0123456789"

IsDigit(c) == \E i \in 1..Len(Digits) : SubSeq(Digits, i, i) = c

DigitVal(c) == (CHOOSE i \in 1..Len(Digits) : SubSeq(Digits, i, i) = c) - 1

RECURSIVE DecimalValue(_)
DecimalValue(s) ==
    IF Len(s) = 0 THEN 0
    ELSE 10 * DecimalValue(SubSeq(s, 1, Len(s) - 1)) + DigitVal(SubSeq(s, Len(s), Len(s)))

\* Number(x) on the values above: a string of digits is its decimal value,
\* the empty string 0, any other string NaN.
ToNumber(v) ==
    CASE v.t = "number" -> v
      [] v.t = "string" ->
            IF \A i \in 1..Len(v.s) : IsDigit(SubSeq(v.s, i, i))
            THEN Num(DecimalValue(v.s)) ELSE NaN
      [] v.t = "boolean" -> Num(v.n)
      [] v.t = "null" -> Num(0)
      [] OTHER -> NaN

\* String(n) for a student id.
RECURSIVE StringOf(_)
StringOf(k) ==
    IF k < 10 THEN SubSeq(Digits, k + 1, k + 1)
    ELSE StringOf(k \div 10) \o SubSeq(Digits, (k % 10) + 1, (k % 10) + 1)

DAY_MS == 24 * 60 * 60 * 1000

\* new Date().toISOString().slice(0,10): the UTC day of the clock.
Today(t) == t \div DAY_MS

NoDate == 0         \* a request without a date
NoConf == -1        \* confidence null

(***************************************************************************)
(* The attendance table.                                                   *)
(***************************************************************************)
Row(sid, d, st, m, c) ==
    [student_id |-> sid, date |-> d, status |-> st, method |-> m, confidence |-> c]

\* Mutant: the SELECT without its date condition.
SelectExisting_AnyDate(tbl, sid, d) ==
    {i \in 1..Len(tbl) : tbl[i].student_id = sid}

\* Mutant: the SELECT without its student condition.
SelectExisting_AnyStudent(tbl, sid, d) ==
    {i \in 1..Len(tbl) : tbl[i].date = d}

\* SELECT id FROM attendance WHERE student_id = ? AND date = ? LIMIT 1
SelectExisting(tbl, sid, d) ==
    {i \in 1..Len(tbl) : tbl[i].student_id = sid /\ tbl[i].date = d}

\* student_id INT NOT NULL: the values an INSERT accepts for the column.
DbStudentId(v) ==
    CASE v.t = "number" -> v.n
      [] v.t = "string" /\ ToNumber(v).t = "number" /\ v.s # "" -> ToNumber(v).n
      [] v.t = "boolean" -> v.n
      [] OTHER -> -1

\* Mutant: the column takes any value.
DbAccepts_Any(v) == TRUE

DbAccepts(v) == DbStudentId(v) >= 0

(***************************************************************************)
(* POST /api/v1/attendance/mark                                            *)
(***************************************************************************)
STATUSES == {"present", "absent", "late"}

\* student_id = student_id ? Number(student_id) : null; NaN becomes null.
MarkStudentId(raw) ==
    LET n == IF Truthy(raw) THEN ToNumber(raw) ELSE Null
    IN  IF n.t = "NaN" THEN Null ELSE n

\* Mutant: the status stored as sent, the default for a missing one only.
MarkStatus_AsSent(st) == IF st = "" THEN "present" ELSE st

\* if (!['present','absent','late'].includes(String(status))) status = 'present'
MarkStatus(st) == IF st \in STATUSES THEN st ELSE "present"

\* String(method || 'face').slice(0,50)
MarkMethod(m) ==
    LET x == IF m = "" THEN "face" ELSE m
    IN  IF Len(x) <= 50 THEN x ELSE SubSeq(x, 1, 50)

MarkDate(d, t) == IF d # NoDate THEN d ELSE Today(t)

\* Mutant: the validation tests for null instead of falsy.
MarkRejects_NullOnly(body) == MarkStudentId(body.student_id).t = "null"

\* The validation of the handler: TRUE when the request is answered 400.
MarkRejects(body) == ~Truthy(MarkStudentId(body.student_id))

MarkRow(body, t) ==
    Row(MarkStudentId(body.student_id).n, MarkDate(body.date, t),
        MarkStatus(body.status), MarkMethod(body.method), body.confidence)

\* Mutant: the duplicate check dropped.
MarkIsDuplicate_Never(existing) == FALSE

\* The duplicate check on the result of the SELECT.
MarkIsDuplicate(existing) == existing # {}

\* Mutant: the duplicate check counts the rows of the request's method only.
MarkHandle_PerMethod(tbl, body, t, db) ==
    IF MarkRejects(body) THEN <<400, tbl>>
    ELSE IF ~db THEN <<500, tbl>>
    ELSE LET row == MarkRow(body, t)
         IN  IF MarkIsDuplicate({i \in SelectExisting(tbl, row.student_id, row.date) :
                                    tbl[i].method = row.method})
             THEN <<409, tbl>>
             ELSE <<200, Append(tbl, row)>>

\* The whole handler on one request, run to completion: <<code, table>>.
MarkHandle(tbl, body, t, db) ==
    IF MarkRejects(body) THEN <<400, tbl>>
    ELSE IF ~db THEN <<500, tbl>>
    ELSE LET row == MarkRow(body, t)
         IN  IF MarkIsDuplicate(SelectExisting(tbl, row.student_id, row.date))
             THEN <<409, tbl>>
             ELSE <<200, Append(tbl, row)>>

(***************************************************************************)
(* The clock and the environment.                                          *)
(***************************************************************************)
Tick ==
    /\ (now % DAY_MS) \div TickMs < MaxTicks
    /\ now' = now + TickMs
    /\ UNCHANGED <<captureVars, net, dbOk, store, reqs, labelToStudentId, faceMatcher,
                   detectInterval, recentMarks, queue, sessionMarked,
                   lastCall, lastDet, lastRet, lastSync, lastFlush>>

Midnight ==
    /\ Today(now) < MaxDay
    /\ now' = (Today(now) + 1) * DAY_MS
    /\ UNCHANGED <<captureVars, net, dbOk, store, reqs, labelToStudentId, faceMatcher,
                   detectInterval, recentMarks, queue, sessionMarked,
                   lastCall, lastDet, lastRet, lastSync, lastFlush>>

DbDown ==
    /\ dbOk
    /\ dbOk' = FALSE
    /\ UNCHANGED <<captureVars, now, net, store, reqs, labelToStudentId, faceMatcher,
                   detectInterval, recentMarks, queue, sessionMarked,
                   lastCall, lastDet, lastRet, lastSync, lastFlush>>

DbUp ==
    /\ ~dbOk
    /\ dbOk' = TRUE
    /\ UNCHANGED <<captureVars, now, net, store, reqs, labelToStudentId, faceMatcher,
                   detectInterval, recentMarks, queue, sessionMarked,
                   lastCall, lastDet, lastRet, lastSync, lastFlush>>

(***************************************************************************)
(* Requests a caller of the mark endpoint may send.                        *)
(***************************************************************************)
Dates == {1, 2}

IdInputs ==
    {Undefined, Null, Num(0), Num(1), Num(2), Str("0"), Str("2"), Str("R1"), Bool(TRUE)}

Variants ==
    {[status |-> "", method |-> "", confidence |-> NoConf],
     [status |-> "late", method |-> "manual", confidence |-> 910],
     [status |-> "holiday", method |-> "kiosk", confidence |-> 500]}

Body(sid, d, v) ==
    [student_id |-> sid, date |-> d, status |-> v.status, method |-> v.method,
     confidence |-> v.confidence]

MarkBodies == {Body(s, d, v) : s \in IdInputs, d \in Dates \cup {NoDate}, v \in Variants}

\* The number of rows of the pair (sid, d) in a table.
PairCount(tbl, sid, d) ==
    Cardinality({i \in 1..Len(tbl) : tbl[i].student_id = sid /\ tbl[i].date = d})

NoCall ==
    [raw |-> Undefined, date |-> NoDate, code |-> 0, db |-> TRUE, had |-> 0,
     changed |-> FALSE, after200 |-> FALSE]

\* One call of POST /attendance/mark that completes before the next starts.
\* lastCall logs the request, the answer, and what the caller saw of the
\* table: the rows of the pair before the call, whether the call changed
\* the table, and whether the previous call was a success for the same pair.
MarkCall(body) ==
    LET r == MarkHandle(store, body, now, dbOk)
        sid == MarkStudentId(body.student_id).n
        d == MarkDate(body.date, now)
    IN  /\ Len(r[2]) <= MaxStore
        /\ store' = r[2]
        /\ lastCall' = [raw |-> body.student_id, date |-> d, code |-> r[1],
                        db |-> dbOk,
                        had |-> PairCount(store, sid, d),
                        changed |-> (r[2] # store),
                        after200 |-> /\ lastCall.code = 200
                                     /\ MarkStudentId(lastCall.raw).n = sid
                                     /\ lastCall.date = d]
        /\ UNCHANGED <<captureVars, now, net, dbOk, reqs, labelToStudentId, faceMatcher,
                       detectInterval, recentMarks, queue, sessionMarked,
                       lastDet, lastRet, lastSync, lastFlush>>

(***************************************************************************)
(* Requests in flight.  A request is sent, then handled by the server      *)
(* (a mark request in two steps, one per awaited query), then its answer   *)
(* is read by whoever sent it; or it fails because the server is not       *)
(* reachable.                                                              *)
(***************************************************************************)
ReqIds == 1..MaxReqs

NoRow == Row(0, NoDate, "", "", NoConf)

NoReq ==
    [kind |-> "none", owner |-> "none", shape |-> "none", recs |-> <<>>,
     st |-> "free", code |-> 0, row |-> NoRow, label |-> ""]

Request(kind, owner, shape, recs, label) ==
    [kind |-> kind, owner |-> owner, shape |-> shape, recs |-> recs,
     st |-> "sent", code |-> 0, row |-> NoRow, label |-> label]

FreeSlots == {r \in ReqIds : reqs[r].st = "free"}

\* The slot a new request takes.
NewSlot == CHOOSE r \in FreeSlots : \A x \in FreeSlots : r <= x

Answer(r, code) == [reqs EXCEPT ![r].st = "done", ![r].code = code]

\* Mutant: resp.ok for every status from 200 up.
RespOk_Any(code) == code >= 200

\* resp.ok: a status in 200..299.
RespOk(code) == code >= 200 /\ code <= 299

\* fetch() rejects: the request never reaches the server.
NetFail(r) ==
    /\ reqs[r].st = "sent"
    /\ ~net
    /\ reqs' = [reqs EXCEPT ![r].st = "failed"]
    /\ UNCHANGED <<captureVars, now, net, dbOk, store, labelToStudentId, faceMatcher,
                   detectInterval, recentMarks, queue, sessionMarked,
                   lastCall, lastDet, lastRet, lastSync, lastFlush>>

NetDown ==
    /\ net
    /\ net' = FALSE
    /\ UNCHANGED <<captureVars, now, dbOk, store, reqs, labelToStudentId, faceMatcher,
                   detectInterval, recentMarks, queue, sessionMarked,
                   lastCall, lastDet, lastRet, lastSync, lastFlush>>

NetUp ==
    /\ ~net
    /\ net' = TRUE
    /\ UNCHANGED <<captureVars, now, dbOk, store, reqs, labelToStudentId, faceMatcher,
                   detectInterval, recentMarks, queue, sessionMarked,
                   lastCall, lastDet, lastRet, lastSync, lastFlush>>

\* POST /attendance/mark up to and including the awaited SELECT.
ServeMarkSelect(r) ==
    /\ reqs[r].kind = "mark"
    /\ reqs[r].st = "sent"
    /\ net
    /\ LET body == reqs[r].recs[1]
           row == MarkRow(body, now)
       IN  reqs' =
             IF MarkRejects(body) THEN Answer(r, 400)
             ELSE IF ~dbOk THEN Answer(r, 500)
             ELSE IF MarkIsDuplicate(SelectExisting(store, row.student_id, row.date))
                  THEN Answer(r, 409)
                  ELSE [reqs EXCEPT ![r].st = "selected", ![r].row = row]
    /\ UNCHANGED <<captureVars, now, net, dbOk, store, labelToStudentId, faceMatcher,
                   detectInterval, recentMarks, queue, sessionMarked,
                   lastCall, lastDet, lastRet, lastSync, lastFlush>>

\* POST /attendance/mark from the awaited INSERT to the answer.
ServeMarkInsert(r) ==
    /\ reqs[r].kind = "mark"
    /\ reqs[r].st = "selected"
    /\ IF dbOk
       THEN /\ Len(store) < MaxStore
            /\ store' = Append(store, reqs[r].row)
            /\ reqs' = Answer(r, 200)
       ELSE /\ store' = store
            /\ reqs' = Answer(r, 500)
    /\ UNCHANGED <<captureVars, now, net, dbOk, labelToStudentId, faceMatcher,
                   detectInterval, recentMarks, queue, sessionMarked,
                   lastCall, lastDet, lastRet, lastSync, lastFlush>>

(***************************************************************************)
(* POST /api/v1/attendance/sync                                            *)
(***************************************************************************)
\* const records = req.body.records || req.body || []; arr = the array, or [].
\* shape "records": {records: recs}; "array": the body is recs itself;
\* "object": an object without a records array.
SyncRecords(shape, recs) ==
    IF shape \in {"records", "array"} THEN recs ELSE <<>>

\* Mutant: the date of a record replaced by the day of the insert.
BulkRow_Today(rec, t) ==
    Row(DbStudentId(rec.student_id),
        Today(t),
        IF rec.status # "" THEN rec.status ELSE "present",
        IF rec.method # "" THEN rec.method ELSE "manual",
        IF rec.confidence \notin {0, NoConf} THEN rec.confidence ELSE NoConf)

\* One element of vals: r.date || today, r.status || 'present',
\* r.method || 'manual', r.confidence || null.
BulkRow(rec, t) ==
    Row(DbStudentId(rec.student_id),
        IF rec.date # NoDate THEN rec.date ELSE Today(t),
        IF rec.status # "" THEN rec.status ELSE "present",
        IF rec.method # "" THEN rec.method ELSE "manual",
        IF rec.confidence \notin {0, NoConf} THEN rec.confidence ELSE NoConf)

\* Mutant: the last record of the batch is left out.
BulkRows_DropLast(arr, t) == [i \in 1..(Len(arr) - 1) |-> BulkRow(arr[i], t)]

BulkRows(arr, t) == [i \in 1..Len(arr) |-> BulkRow(arr[i], t)]

\* INSERT ... VALUES ?: one statement, all rows or none.
BulkInsertOk(arr, db) == db /\ \A i \in 1..Len(arr) : DbAccepts(arr[i].student_id)

\* The inserted field of the answer: vals.length.
SyncInserted(arr, t) == Len(BulkRows(arr, t))

\* The sync handler on one request: <<code, table>>.
SyncHandle(tbl, shape, recs, t, db) ==
    LET arr == SyncRecords(shape, recs)
    IN  IF Len(arr) = 0 THEN <<400, tbl>>
        ELSE IF ~BulkInsertOk(arr, db) THEN <<500, tbl>>
        ELSE <<200, tbl \o BulkRows(arr, t)>>

\* TRUE when every record of a batch names a student and a date, no two
\* records name the same pair, and the table has no row of any of the pairs.
FreshBatch(tbl, arr) ==
    /\ \A i \in 1..Len(arr) :
          /\ arr[i].student_id.t = "number"
          /\ arr[i].student_id.n > 0
          /\ arr[i].date # NoDate
          /\ PairCount(tbl, arr[i].student_id.n, arr[i].date) = 0
    /\ \A i, j \in 1..Len(arr) :
          (arr[i].student_id = arr[j].student_id /\ arr[i].date = arr[j].date) => i = j

\* TRUE when the table has exactly one row for the pair of each record.
OnePerRecord(tbl, arr) ==
    \A i \in 1..Len(arr) : PairCount(tbl, arr[i].student_id.n, arr[i].date) = 1

NoSync ==
    [owner |-> "none", n |-> 0, db |-> TRUE, fresh |-> FALSE, code |-> 0,
     exact |-> FALSE]

SyncServed(r) ==
    /\ reqs[r].kind = "sync"
    /\ reqs[r].st = "sent"
    /\ net
    /\ LET res == SyncHandle(store, reqs[r].shape, reqs[r].recs, now, dbOk)
       IN  /\ Len(res[2]) <= MaxStore
           /\ store' = res[2]
           /\ reqs' = Answer(r, res[1])
    /\ UNCHANGED <<captureVars, now, net, dbOk, labelToStudentId, faceMatcher,
                   detectInterval, recentMarks, queue, sessionMarked, lastCall,
                   lastDet, lastRet, lastFlush>>

ServeSync(r) ==
    /\ SyncServed(r)
    /\ UNCHANGED lastSync

\* The same step with the batch logged: who sent it, its size, whether the
\* database was up, whether the batch was fresh, the answer, and whether
\* the table afterwards has one more row per record and one row per pair.
ObservedServeSync(r) ==
    /\ SyncServed(r)
    /\ LET arr == SyncRecords(reqs[r].shape, reqs[r].recs)
       IN  lastSync' = [owner |-> reqs[r].owner, n |-> Len(arr), db |-> dbOk,
                        fresh |-> FreshBatch(store, arr), code |-> reqs'[r].code,
                        exact |-> /\ Len(store') = Len(store) + Len(arr)
                                  /\ OnePerRecord(store', arr)]

(***************************************************************************)
(* Other callers of the API: a second page, a script, an older client.     *)
(***************************************************************************)
ExtIds == {Null, Num(1), Num(2)}

ExtBodies ==
    {Body(s, d, v) : s \in ExtIds, d \in {NoDate, 2},
                     v \in {[status |-> "", method |-> "", confidence |-> NoConf]}}

ExtPostMark(body) ==
    /\ FreeSlots # {}
    /\ reqs' = [reqs EXCEPT ![NewSlot] = Request("mark", "ext", "object", <<body>>, "")]
    /\ UNCHANGED <<captureVars, now, net, dbOk, store, labelToStudentId, faceMatcher,
                   detectInterval, recentMarks, queue, sessionMarked,
                   lastCall, lastDet, lastRet, lastSync, lastFlush>>

ExtReceive(r) ==
    /\ reqs[r].owner = "ext"
    /\ reqs[r].st \in {"done", "failed"}
    /\ reqs' = [reqs EXCEPT ![r] = NoReq]
    /\ UNCHANGED <<captureVars, now, net, dbOk, store, labelToStudentId, faceMatcher,
                   detectInterval, recentMarks, queue, sessionMarked,
                   lastCall, lastDet, lastRet, lastSync, lastFlush>>

\* The bodies of a sync request: {records: recs}, a bare array recs, an
\* object without a records field, an object whose records field is a
\* string, and an object whose records field is null.
SyncShapes == {"records", "array", "object", "scalar", "null"}

ExtRecord(sid, d) ==
    [student_id |-> sid, date |-> d, status |-> "", method |-> "",
     confidence |-> NoConf]

ExtRecords == {ExtRecord(s, d) : s \in {Null, Num(1), Num(3)}, d \in {NoDate, 2}}

\* Arrays of up to MaxBatch records.
ExtBatches ==
    {<<>>} \cup UNION {[1..n -> ExtRecords] : n \in 1..MaxBatch}

\* A caller that posts one batch and waits for its answer.
ExtPostSync(shape, recs) ==
    /\ FreeSlots # {}
    /\ \A r \in ReqIds : reqs[r].owner # "ext"
    /\ shape \in {"records", "array"} \/ recs = <<>>
    /\ reqs' = [reqs EXCEPT ![NewSlot] = Request("sync", "ext", shape, recs, "")]
    /\ UNCHANGED <<captureVars, now, net, dbOk, store, labelToStudentId, faceMatcher,
                   detectInterval, recentMarks, queue, sessionMarked,
                   lastCall, lastDet, lastRet, lastSync, lastFlush>>

(***************************************************************************)
(* The scanner page.                                                       *)
(***************************************************************************)
\* The students table as GET /students returns it: id and roll ("" is null).
Students ==
    <<[id |-> 1, roll |-> "R1"], [id |-> 3, roll |-> ""]>>

\* fetchStudentsMap: key String(roll ?? s.id), value s.id.
StudentKey(st) == IF st.roll # "" THEN st.roll ELSE StringOf(st.id)

StudentsMap ==
    [k \in {StudentKey(Students[i]) : i \in 1..Len(Students)} |->
        (CHOOSE i \in 1..Len(Students) : StudentKey(Students[i]) = k)]

EmptyMap == [k \in {} |-> 0]

\* buildFaceMatcher: label it.roll ? String(it.roll) : `id_${it.student_id}`.
EmbLabel(st) == IF st.roll # "" THEN st.roll ELSE "id_" \o StringOf(st.id)

Labels == {EmbLabel(Students[i]) : i \in 1..Len(Students)}

\* labelToStudentId.get(label); 0 is undefined.
MapGet(map, label) == IF label \in DOMAIN map THEN map[label] ELSE 0

COOLDOWN_MS == 45 * 1000

\* Mutant: no call is suppressed.
Suppressed_Never(last, t) == FALSE

\* Mutant: an event exactly 45 s after the last one suppressed too.
Suppressed_Inclusive(last, t) == last # 0 /\ t - last <= COOLDOWN_MS

\* The debounce test of markAttendanceForLabel: TRUE when the call returns
\* at once.
Suppressed(last, t) == last # 0 /\ t - last < COOLDOWN_MS

Distances == {904}      \* distances of a match, in ten-thousandths

\* +(1 - distance).toFixed(3), in thousandths.
Confidence(dist) == ((10000 - dist) + 5) \div 10

Payload(studentId, t, dist) ==
    [student_id |-> IF studentId # 0 THEN Num(studentId) ELSE Null,
     date |-> Today(t), timestamp |-> t, status |-> "present",
     method |-> "face", confidence |-> Confidence(dist)]

\* Mutant: the queued record without the label.
QueueItem_NoLabel(roll, payload) ==
    [roll_number |-> "", student_id |-> payload.student_id, date |-> payload.date,
     timestamp |-> payload.timestamp, status |-> payload.status, method |-> payload.method,
     confidence |-> payload.confidence, synced |-> FALSE]

\* The object handed to queueAttendance: the payload, roll_number for an
\* unresolved label, synced false.
QueueItem(roll, payload) ==
    [roll_number |-> roll, student_id |-> payload.student_id, date |-> payload.date,
     timestamp |-> payload.timestamp, status |-> payload.status, method |-> payload.method,
     confidence |-> payload.confidence, synced |-> FALSE]

\* Mutant: the record put in front of the stored array.
QueueAttendance_Front(q, item) == <<item>> \o q

\* queueAttendance: parse the stored array, push, store it again.
QueueAttendance(q, item) == Append(q, item)

\* startCameraAndDetect, run to completion, once the models are loaded.
\* fetchEmbeddings and fetchStudentsMap answer [] and an empty Map when the
\* server cannot be reached or answers an error (the two loads see the
\* server in one and the same condition); buildFaceMatcher leaves the
\* matcher null without embeddings.  getUserMedia replaces the stream, and
\* a stream that is replaced while live stays live; when it rejects, or
\* when video.play() rejects, the catch reports the error and no timer is
\* set.  Otherwise the timer replaces the one that was set.
StartCameraAndDetect(camOk, playOk) ==
    /\ labelToStudentId' = IF net /\ dbOk THEN StudentsMap ELSE EmptyMap
    /\ faceMatcher' = IF net /\ dbOk THEN Labels ELSE {}
    /\ IF camOk
       THEN /\ stream' = "live"
            /\ lostStreams' = lostStreams + (IF stream = "live" THEN 1 ELSE 0)
            /\ lostStreams' <= MaxLost
       ELSE UNCHANGED <<stream, lostStreams>>
    /\ detectInterval' = ((camOk /\ playOk) \/ detectInterval)
    /\ UNCHANGED <<now, net, dbOk, store, reqs, recentMarks, queue,
                   sessionMarked, lastCall, lastDet, lastRet, lastSync,
                   lastFlush, scans, srmDurable, srmQueue, detectionsInterval,
                   stream1, lastScan, steps1, faceMatcher1, lostStreams1, frameVars, adminVars>>

\* markAttendanceForLabel up to its first await: the debounce, the lookup
\* of the student id, and either the enqueue of an unresolved label or the
\* mark request.  A suppressed call changes nothing.
MarkAttendanceCall(l, dist) ==
    /\ l \in faceMatcher
    /\ IF Suppressed(recentMarks[l], now)
       THEN UNCHANGED <<recentMarks, queue, reqs>>
       ELSE LET studentId == MapGet(labelToStudentId, l)
                payload == Payload(studentId, now, dist)
            IN  /\ recentMarks' = [recentMarks EXCEPT ![l] = now]
                /\ IF studentId = 0
                   THEN /\ Len(queue) < MaxQueue
                        /\ queue' = QueueAttendance(queue, QueueItem(l, payload))
                        /\ UNCHANGED reqs
                   ELSE /\ FreeSlots # {}
                        /\ reqs' = [reqs EXCEPT
                                      ![NewSlot] = Request("mark", "scan", "object",
                                                           <<payload>>, l)]
                        /\ UNCHANGED queue
    /\ UNCHANGED <<now, net, dbOk, store, labelToStudentId, faceMatcher,
                   detectInterval, sessionMarked, lastCall, lastRet,
                   lastSync, lastFlush, stream, lostStreams, srmDurable, srmQueue,
                   detectionsInterval, stream1, lastScan, steps1, faceMatcher1,
                   lostStreams1>>

\* The call as a scan step of the running loop makes it, the step taken as
\* one with the timer callback that started it.
MarkAttendanceBody(l, dist) ==
    /\ detectInterval
    /\ MarkAttendanceCall(l, dist)
    /\ UNCHANGED <<scans, frameVars, adminVars>>

MarkAttendanceForLabel(l, dist) ==
    /\ MarkAttendanceBody(l, dist)
    /\ UNCHANGED lastDet

\* The same call with the detection event logged: the label, the time of
\* the event, and whether the call went on to persist (a request sent or a
\* record queued).
ObservedMark(l, dist) ==
    /\ MarkAttendanceBody(l, dist)
    /\ lastDet' = [label |-> l, at |-> now, prevAt |-> lastDet.at,
                   prevLabel |-> lastDet.label, prevEmitted |-> lastDet.emitted,
                   emitted |-> (queue' # queue \/ reqs' # reqs)]

\* Mutant: only a fetch that threw queues the record.
MarkQueues_ThrowOnly(req) == req.st = "failed"

\* TRUE when the answer of a mark request makes the page queue the record:
\* every answer but resp.ok, and a fetch that threw.
MarkQueues(req) == ~(req.st = "done" /\ RespOk(req.code))

\* sessionMarked, a Set: add, delete and has.
SetHas(set, id) == \E i \in 1..Len(set) : set[i] = id

SetAdd(set, id) == IF SetHas(set, id) THEN set ELSE Append(set, id)

SetDelete(set, id) == SelectSeq(set, LAMBDA x : x # id)

NoRet == [st |-> "none", code |-> 0, grew |-> FALSE, held |-> FALSE]

\* markAttendanceForLabel after the await of its request.
MarkReturned(r) ==
    /\ reqs[r].owner = "scan"
    /\ reqs[r].st \in {"done", "failed"}
    /\ IF MarkQueues(reqs[r])
       THEN /\ Len(queue) < MaxQueue
            /\ queue' = QueueAttendance(queue, QueueItem("", reqs[r].recs[1]))
            /\ UNCHANGED sessionMarked
       ELSE /\ sessionMarked' = SetAdd(sessionMarked, reqs[r].recs[1].student_id.n)
            /\ UNCHANGED queue
    /\ reqs' = [reqs EXCEPT ![r] = NoReq]
    /\ UNCHANGED <<now, net, dbOk, store, labelToStudentId, faceMatcher,
                   detectInterval, recentMarks, lastCall, lastDet, lastSync,
                   lastFlush, stream, lostStreams, srmDurable, srmQueue,
                   detectionsInterval, stream1, lastScan, steps1, faceMatcher1,
                   lostStreams1>>

MarkReturn(r) ==
    /\ MarkReturned(r)
    /\ UNCHANGED <<lastRet, scans, frameVars, adminVars>>

\* The same step with the return logged: how the request ended, whether
\* the queue changed, and whether the record is in the queue afterwards.
ObservedMarkReturn(r) ==
    /\ MarkReturned(r)
    /\ UNCHANGED <<scans, frameVars, adminVars>>
    /\ lastRet' = [st |-> reqs[r].st, code |-> reqs[r].code,
                   grew |-> queue' # queue,
                   held |-> \E i \in 1..Len(queue') :
                               queue'[i] = QueueItem("", reqs[r].recs[1])]

\* syncOfflineQueue up to its await: the queue as read is the batch.
FlushStart ==
    /\ Len(queue) > 0
    /\ FreeSlots # {}
    /\ reqs' = [reqs EXCEPT ![NewSlot] = Request("sync", "flush", "records", queue, "")]
    /\ UNCHANGED <<captureVars, now, net, dbOk, store, labelToStudentId, faceMatcher,
                   detectInterval, recentMarks, queue, sessionMarked,
                   lastCall, lastDet, lastRet, lastSync, lastFlush>>

\* What syncOfflineQueue stores after a confirmed batch.
QueueAfterFlush(q, batch) == <<>>

\* syncOfflineQueue after the await.
FlushReturned(r) ==
    /\ reqs[r].owner = "flush"
    /\ reqs[r].st \in {"done", "failed"}
    /\ queue' = IF reqs[r].st = "done" /\ RespOk(reqs[r].code)
                THEN QueueAfterFlush(queue, reqs[r].recs) ELSE queue
    /\ reqs' = [reqs EXCEPT ![r] = NoReq]
    /\ UNCHANGED <<captureVars, now, net, dbOk, store, labelToStudentId, faceMatcher,
                   detectInterval, recentMarks, sessionMarked, lastCall, lastDet,
                   lastRet, lastSync>>

FlushReturn(r) ==
    /\ FlushReturned(r)
    /\ UNCHANGED lastFlush

\* The same step with the flush logged: whether the server confirmed the
\* batch, the size of the batch, and the length of the queue before and
\* after the step.
ObservedFlushReturn(r) ==
    /\ FlushReturned(r)
    /\ lastFlush' = [ok |-> (reqs[r].st = "done" /\ RespOk(reqs[r].code)),
                     n |-> Len(reqs[r].recs), before |-> Len(queue),
                     left |-> Len(queue')]

NoFlush == [ok |-> FALSE, n |-> 0, before |-> 0, left |-> 0]

\* A click on a row's mark button: the id joins or leaves sessionMarked.
\* The rows are those of the students the page has loaded.
ToggleMark(id) ==
    /\ \E l \in DOMAIN labelToStudentId : labelToStudentId[l] = id
    /\ sessionMarked' = IF SetHas(sessionMarked, id) THEN SetDelete(sessionMarked, id)
                        ELSE SetAdd(sessionMarked, id)
    /\ UNCHANGED <<captureVars, now, net, dbOk, store, reqs, labelToStudentId, faceMatcher,
                   detectInterval, recentMarks, queue, lastCall, lastDet, lastRet,
                   lastSync, lastFlush>>

\* One record of the submit handler's batch.
ManualRecord(id, t) ==
    [student_id |-> Num(id), date |-> Today(t), status |-> "present",
     method |-> "manual", confidence |-> NoConf]

\* The submit handler up to its await.
SubmitStart ==
    /\ Len(sessionMarked) > 0
    /\ FreeSlots # {}
    /\ reqs' = [reqs EXCEPT
                  ![NewSlot] = Request("sync", "submit", "records",
                                       [i \in 1..Len(sessionMarked) |->
                                           ManualRecord(sessionMarked[i], now)], "")]
    /\ UNCHANGED <<captureVars, now, net, dbOk, store, labelToStudentId, faceMatcher,
                   detectInterval, recentMarks, queue, sessionMarked, lastCall,
                   lastDet, lastRet, lastSync, lastFlush>>

\* The submit handler after the await: a confirmed batch clears the session.
SubmitReturn(r) ==
    /\ reqs[r].owner = "submit"
    /\ reqs[r].st \in {"done", "failed"}
    /\ sessionMarked' = IF reqs[r].st = "done" /\ RespOk(reqs[r].code)
                        THEN <<>> ELSE sessionMarked
    /\ reqs' = [reqs EXCEPT ![r] = NoReq]
    /\ UNCHANGED <<captureVars, now, net, dbOk, store, labelToStudentId, faceMatcher,
                   detectInterval, recentMarks, queue, lastCall, lastDet, lastRet,
                   lastSync, lastFlush>>

NoDet ==
    [label |-> "", at |-> 0, prevAt |-> 0, prevLabel |-> "", prevEmitted |-> FALSE,
     emitted |-> FALSE]

(***************************************************************************)
(* The batch scanner (scanner.js): a capture loop that sends the matches   *)
(* of one frame as one sync request, and queues them in window.srmDB when  *)
(* the request fails.                                                      *)
(***************************************************************************)
SCAN_INTERVAL_MS == 300

\* The labels of the best matches of the faces of one frame, largest face
\* first; the matcher's labels are String(rec.student_id).
Frames1 == {<<>>, <<"unknown">>, <<"1">>, <<"1", "3">>}

\* Math.round((1 - distance) * 10000) / 100, in hundredths of a percent.
Confidence1(dist) == 10000 - dist

\* One record of the batch; the timestamp is the clock in milliseconds.
Record1(label, t, dist) ==
    [student_id |-> ToNumber(Str(label)), status |-> "present", method |-> "face",
     confidence |-> Confidence1(dist), date |-> Today(t), timestamp |-> t]

\* Mutant: a record for every face of the frame.
Records1_All(frame, t, dist) ==
    [i \in 1..Len(frame) |-> Record1(frame[i], t, dist)]

\* The records of a frame: one per face whose label is not 'unknown'.
Records1(frame, t, dist) ==
    LET known == SelectSeq(frame, LAMBDA l : l # "" /\ l # "unknown")
    IN  [i \in 1..Len(known) |-> Record1(known[i], t, dist)]

\* What window.srmDB holds when the script has been evaluated again: the
\* IndexedDB store keeps its records, fakeDB starts with _q = [].
SrmAfterLoad(durable, q) == IF durable THEN q ELSE <<>>

\* srmDB.add: <<resolved, records>>.  The IndexedDB store is keyed by
\* timestamp and add() rejects a key it already holds; fakeDB pushes.
SrmAdd(durable, q, rec) ==
    IF durable /\ \E i \in 1..Len(q) : q[i].timestamp = rec.timestamp
    THEN <<FALSE, q>>
    ELSE <<TRUE, Append(q, rec)>>

\* for (const rec of records) await window.srmDB.add(rec): the loop ends
\* at the first add that rejects.
RECURSIVE SrmAddAll(_, _, _)
SrmAddAll(durable, q, recs) ==
    IF Len(recs) = 0 THEN q
    ELSE LET res == SrmAdd(durable, q, recs[1])
         IN  IF res[1] THEN SrmAddAll(durable, res[2], Tail(recs)) ELSE res[2]

\* srmDB.getAll: IndexedDB answers in key order, which is the order of the
\* adds because the clock does not go back; fakeDB answers a copy of _q.
SrmGetAll(q) == q

\* The startBtn handler, run to completion, once the models are loaded:
\* loadEmbeddings builds the matcher when the server answers, getUserMedia
\* replaces the stream, and startDetectionLoop sets the timer unless one is
\* set.  A stream that is replaced while live stays live.
Start1(camOk, playOk) ==
    /\ faceMatcher1' = (faceMatcher1 \/ (net /\ dbOk))
    /\ IF camOk
       THEN /\ stream1' = "live"
            /\ lostStreams1' = lostStreams1 + (IF stream1 = "live" THEN 1 ELSE 0)
            /\ lostStreams1' <= MaxLost
            /\ detectionsInterval' = (detectionsInterval \/ playOk)
       ELSE UNCHANGED <<stream1, lostStreams1, detectionsInterval>>
    /\ UNCHANGED <<now, net, dbOk, store, reqs, pageVars, logVars, srmDurable,
                   srmQueue, lastScan, steps1, frameVars, adminVars>>

\* stopDetectionLoop: the timer is cleared and forgotten.
StopDetectionLoop == detectionsInterval' = FALSE

\* The stopBtn handler: the loop is stopped, the tracks of the stream are
\* stopped and the stream forgotten.
Stop1 ==
    /\ StopDetectionLoop
    /\ stream1' = "none"
    /\ UNCHANGED <<now, net, dbOk, store, reqs, pageVars, logVars, srmDurable,
                   srmQueue, lastScan, steps1, faceMatcher1, lostStreams1, frameVars, adminVars>>

\* The timer fires: the callback up to its first await.  Within
\* SCAN_INTERVAL_MS of the last scan it returns; without a matcher it loads
\* the embeddings and returns; otherwise a scan step is under way.
TimerFire1 ==
    /\ detectionsInterval
    /\ now - lastScan >= SCAN_INTERVAL_MS
    /\ lastScan' = now
    /\ IF ~faceMatcher1
       THEN /\ faceMatcher1' = (net /\ dbOk)
            /\ UNCHANGED steps1
       ELSE /\ steps1 + Cardinality({r \in ReqIds : reqs[r].owner = "batch"}) < MaxScans
            /\ steps1' = steps1 + 1
            /\ UNCHANGED faceMatcher1
    /\ UNCHANGED <<now, net, dbOk, store, reqs, pageVars, logVars, srmDurable,
                   srmQueue, detectionsInterval, stream1, lostStreams1, frameVars, adminVars>>

\* A scan step after detectAllFaces: it builds the records of the frame
\* and posts them, or ends when there is none.
Detect1(frame, dist) ==
    /\ steps1 > 0
    /\ steps1' = steps1 - 1
    /\ LET records == Records1(frame, now, dist)
       IN  IF Len(records) = 0
           THEN UNCHANGED reqs
           ELSE /\ FreeSlots # {}
                /\ reqs' = [reqs EXCEPT
                              ![NewSlot] = Request("sync", "batch", "records",
                                                   records, "")]
    /\ UNCHANGED <<now, net, dbOk, store, pageVars, logVars, srmDurable, srmQueue,
                   detectionsInterval, stream1, lastScan, faceMatcher1,
                   lostStreams1, frameVars, adminVars>>

\* A scan step after its request: res.ok ends it, any other answer and a
\* fetch that threw add the records to window.srmDB.
Return1(r) ==
    /\ reqs[r].owner = "batch"
    /\ reqs[r].st \in {"done", "failed"}
    /\ srmQueue' = IF reqs[r].st = "done" /\ RespOk(reqs[r].code)
                   THEN srmQueue
                   ELSE SrmAddAll(srmDurable, srmQueue, reqs[r].recs)
    /\ Len(srmQueue') <= MaxQueue
    /\ reqs' = [reqs EXCEPT ![r] = NoReq]
    /\ UNCHANGED <<now, net, dbOk, store, pageVars, logVars, srmDurable,
                   detectionsInterval, stream1, lastScan, steps1, faceMatcher1,
                   lostStreams1, frameVars, adminVars>>

\* The syncBtn handler up to its fetch.
SyncStart1 ==
    /\ Len(SrmGetAll(srmQueue)) > 0
    /\ FreeSlots # {}
    /\ reqs' = [reqs EXCEPT ![NewSlot] = Request("sync", "sync1", "records",
                                                  SrmGetAll(srmQueue), "")]
    /\ UNCHANGED <<now, net, dbOk, store, pageVars, logVars, srmDurable, srmQueue,
                   detectionsInterval, stream1, lastScan, steps1, faceMatcher1,
                   lostStreams1, frameVars, adminVars>>

\* The syncBtn handler after its fetch: res.ok clears the store, anything
\* else is logged.
SyncReturn1(r) ==
    /\ reqs[r].owner = "sync1"
    /\ reqs[r].st \in {"done", "failed"}
    /\ srmQueue' = IF reqs[r].st = "done" /\ RespOk(reqs[r].code)
                   THEN <<>> ELSE srmQueue
    /\ reqs' = [reqs EXCEPT ![r] = NoReq]
    /\ UNCHANGED <<now, net, dbOk, store, pageVars, logVars, srmDurable,
                   detectionsInterval, stream1, lastScan, steps1, faceMatcher1,
                   lostStreams1, frameVars, adminVars>>

\* The page of the batch scanner is loaded again: beforeunload stops the
\* loop and the tracks, the script's variables start over, the responses
\* of its requests are never read, and window.srmDB is what the page
\* defines on load.
Reload1 ==
    /\ detectionsInterval' = FALSE
    /\ stream1' = "none"
    /\ lostStreams1' = 0
    /\ faceMatcher1' = FALSE
    /\ lastScan' = 0
    /\ steps1' = 0
    /\ reqs' = [r \in ReqIds |->
                  IF reqs[r].owner \in {"batch", "sync1"} THEN NoReq ELSE reqs[r]]
    /\ srmQueue' = SrmAfterLoad(srmDurable, srmQueue)
    /\ UNCHANGED <<now, net, dbOk, store, pageVars, logVars, srmDurable, frameVars, adminVars>>

(***************************************************************************)
(* The capture loop of the marking scanner: the timer callback as steps,   *)
(* and stopCamera.                                                         *)
(***************************************************************************)
\* The scan steps in flight: the callbacks that are running and those that
\* await the answer of their mark request.
ScansInFlight == scans + Cardinality({r \in ReqIds : reqs[r].owner = "scan"})

\* The timer fires: setInterval calls the callback whether or not an
\* earlier call has returned.
TimerFire ==
    /\ detectInterval
    /\ ScansInFlight < MaxScans
    /\ scans' = scans + 1
    /\ UNCHANGED <<now, net, dbOk, store, reqs, labelToStudentId, faceMatcher,
                   detectInterval, recentMarks, queue, sessionMarked, stream,
                   lostStreams, logVars, srmDurable, srmQueue, detectionsInterval,
                   stream1, lastScan, steps1, faceMatcher1, lostStreams1, frameVars, adminVars>>

\* A running step calls markAttendanceForLabel for a face it matched; the
\* step awaits the call, which awaits its request when it sends one.
ScanMark(l, dist) ==
    /\ scans > 0
    /\ MarkAttendanceCall(l, dist)
    /\ scans' = IF reqs' # reqs THEN scans - 1 ELSE scans
    /\ UNCHANGED <<lastDet, frameVars, adminVars>>

\* The same call of a step with the detection logged, as ObservedMark logs it.
ObservedScanMark(l, dist) ==
    /\ scans > 0
    /\ MarkAttendanceCall(l, dist)
    /\ scans' = IF reqs' # reqs THEN scans - 1 ELSE scans
    /\ UNCHANGED <<frameVars, adminVars>>
    /\ lastDet' = [label |-> l, at |-> now, prevAt |-> lastDet.at,
                   prevLabel |-> lastDet.label, prevEmitted |-> lastDet.emitted,
                   emitted |-> (queue' # queue \/ reqs' # reqs)]

\* The request of a step's mark call returns and the step runs on.
ScanMarkReturn(r) ==
    /\ MarkReturned(r)
    /\ scans' = scans + 1
    /\ UNCHANGED <<lastRet, frameVars, adminVars>>

\* A running step returns: no face, no matcher, or no face left.
ScanEnd ==
    /\ scans > 0
    /\ scans' = scans - 1
    /\ UNCHANGED <<now, net, dbOk, store, reqs, labelToStudentId, faceMatcher,
                   detectInterval, recentMarks, queue, sessionMarked, stream,
                   lostStreams, logVars, srmDurable, srmQueue, detectionsInterval,
                   stream1, lastScan, steps1, faceMatcher1, lostStreams1, frameVars, adminVars>>

\* Mutant: stop toggles the timer.
StopTimer_Toggle(timer) == ~timer

\* clearInterval(detectInterval): no timer is scheduled afterwards.
StopTimer(timer) == FALSE

\* stream.getTracks().forEach(t => t.stop()): the tracks of the stream the
\* page refers to are stopped; the variable keeps the stream.
StopStream(s) == IF s = "live" THEN "stopped" ELSE s

\* stopCamera.
StopCamera ==
    /\ detectInterval' = StopTimer(detectInterval)
    /\ stream' = StopStream(stream)
    /\ UNCHANGED <<now, net, dbOk, store, reqs, labelToStudentId, faceMatcher,
                   recentMarks, queue, sessionMarked, lostStreams, scans, logVars,
                   srmDurable, srmQueue, detectionsInterval, stream1, lastScan,
                   steps1, faceMatcher1, lostStreams1, frameVars, adminVars>>

(***************************************************************************)
(* The page of the marking scanner is loaded again.                        *)
(***************************************************************************)
\* What localStorage 'offline_attendance' holds on the next load.
QueueAfterLoad(q) == q

\* The script's variables start over, the camera is released with the
\* page, the responses of the page's requests are never read, and the
\* queue is what localStorage holds.
Reload ==
    /\ labelToStudentId' = EmptyMap
    /\ faceMatcher' = {}
    /\ detectInterval' = FALSE
    /\ recentMarks' = [l \in Labels |-> 0]
    /\ sessionMarked' = <<>>
    /\ stream' = "none"
    /\ lostStreams' = 0
    /\ scans' = 0
    /\ reqs' = [r \in ReqIds |->
                  IF reqs[r].owner \in {"scan", "flush", "submit"}
                  THEN NoReq ELSE reqs[r]]
    /\ queue' = QueueAfterLoad(queue)
    /\ UNCHANGED <<now, net, dbOk, store, logVars, srmDurable, srmQueue,
                   detectionsInterval, stream1, lastScan, steps1, faceMatcher1,
                   lostStreams1, frameVars, adminVars>>

(***************************************************************************)
(* The state after the page and the server have started.                   *)
(***************************************************************************)
\* No call of addStudent yet.
NoAdd == [roll |-> "", code |-> 0, ret |-> 0, before |-> <<>>, after |-> <<>>]

\* trySyncEmbQueue is not running.
NoEmbSync == [st |-> "idle", q |-> <<>>, remain |-> <<>>, oks |-> <<>>, rows0 |-> 0]

InitWith(durable) ==
    /\ now = DAY_MS
    /\ net = TRUE
    /\ dbOk = TRUE
    /\ store = <<>>
    /\ reqs = [r \in ReqIds |-> NoReq]
    /\ labelToStudentId = EmptyMap
    /\ faceMatcher = {}
    /\ detectInterval = FALSE
    /\ recentMarks = [l \in Labels |-> 0]
    /\ queue = <<>>
    /\ lastCall = NoCall
    /\ lastDet = NoDet
    /\ sessionMarked = <<>>
    /\ lastRet = NoRet
    /\ lastSync = NoSync
    /\ lastFlush = NoFlush
    /\ stream = "none"
    /\ lostStreams = 0
    /\ scans = 0
    /\ srmDurable = durable
    /\ srmQueue = <<>>
    /\ detectionsInterval = FALSE
    /\ stream1 = "none"
    /\ lastScan = 0
    /\ steps1 = 0
    /\ faceMatcher1 = FALSE
    /\ lostStreams1 = 0
    /\ valid = <<>>
    /\ cbStep = "idle"
    /\ cbDone = <<>>
    /\ statusLine = ""
    /\ faceEmbeddings = <<>>
    /\ studentRows = Students
    /\ lastAdd = NoAdd
    /\ embQueue = <<>>
    /\ embSync = NoEmbSync

\* The pages load db.js before scanner.js.
Init == InitWith(TRUE)

\* The page of the batch scanner with or without db.js.
InitBatch == \E durable \in BOOLEAN : InitWith(durable)

(***************************************************************************)
(* SpecMark: one caller of POST /attendance/mark, each call completing     *)
(* before the next starts.                                                 *)
(***************************************************************************)
NextMark ==
    \/ \E body \in MarkBodies : MarkCall(body)
    \/ Midnight
    \/ DbDown
    \/ DbUp

SpecMark == Init /\ [][NextMark]_vars

(***************************************************************************)
(* SpecMarkConc: callers of POST /attendance/mark whose requests the       *)
(* server handles concurrently.                                            *)
(***************************************************************************)
NextMarkConc ==
    \/ \E body \in ExtBodies : ExtPostMark(body)
    \/ \E r \in ReqIds : ServeMarkSelect(r)
    \/ \E r \in ReqIds : ServeMarkInsert(r)
    \/ \E r \in ReqIds : ExtReceive(r)
    \/ Midnight
    \/ DbDown
    \/ DbUp

SpecMarkConc == Init /\ [][NextMarkConc]_vars

(***************************************************************************)
(* Spec: the scanner page and the server, within one day.                  *)
(***************************************************************************)
Next ==
    \/ Tick
    \/ NetDown
    \/ NetUp
    \/ DbDown
    \/ DbUp
    \/ \E camOk, playOk \in BOOLEAN : StartCameraAndDetect(camOk, playOk)
    \/ \E l \in Labels, dist \in Distances : MarkAttendanceForLabel(l, dist)
    \/ \E r \in ReqIds : NetFail(r)
    \/ \E r \in ReqIds : ServeMarkSelect(r)
    \/ \E r \in ReqIds : ServeMarkInsert(r)
    \/ \E r \in ReqIds : ServeSync(r)
    \/ \E r \in ReqIds : MarkReturn(r)
    \/ FlushStart
    \/ \E r \in ReqIds : FlushReturn(r)
    \/ \E i \in 1..Len(Students) : ToggleMark(Students[i].id)
    \/ SubmitStart
    \/ \E r \in ReqIds : SubmitReturn(r)

Spec == Init /\ [][Next]_vars

(***************************************************************************)
(* SpecScan: the scanner's persistence path and the server over two days,  *)
(* with the returns of its requests logged.                                *)
(***************************************************************************)
NextScan ==
    \/ Midnight
    \/ NetDown
    \/ NetUp
    \/ DbDown
    \/ DbUp
    \/ \E camOk, playOk \in BOOLEAN : StartCameraAndDetect(camOk, playOk)
    \/ \E l \in Labels, dist \in Distances : MarkAttendanceForLabel(l, dist)
    \/ \E r \in ReqIds : NetFail(r)
    \/ \E r \in ReqIds : ServeMarkSelect(r)
    \/ \E r \in ReqIds : ServeMarkInsert(r)
    \/ \E r \in ReqIds : ObservedServeSync(r)
    \/ \E r \in ReqIds : ObservedMarkReturn(r)
    \/ FlushStart
    \/ \E r \in ReqIds : ObservedFlushReturn(r)

SpecScan == Init /\ [][NextScan]_vars

(***************************************************************************)
(* SpecDebounce: detections over time, each one logged.                    *)
(***************************************************************************)
NextDebounce ==
    \/ Tick
    \/ NetDown
    \/ NetUp
    \/ \E camOk, playOk \in BOOLEAN : StartCameraAndDetect(camOk, playOk)
    \/ \E l \in Labels, dist \in Distances : ObservedMark(l, dist)
    \/ \E r \in ReqIds : NetFail(r)
    \/ \E r \in ReqIds : ServeMarkSelect(r)
    \/ \E r \in ReqIds : ServeMarkInsert(r)
    \/ \E r \in ReqIds : MarkReturn(r)

SpecDebounce == Init /\ [][NextDebounce]_vars

CallId == MarkStudentId(lastCall.raw).n

\* C2: after any sequence of mark calls made one after another, the table
\* holds at most one row for every (student_id, date) pair.
C2_SequentialMarksUnique ==
    \A i, j \in 1..Len(store) :
        (store[i].student_id = store[j].student_id /\ store[i].date = store[j].date)
            => i = j

\* A repeated call for a marked pair has been answered, with another pair
\* in the table.
C2_Witness ==
    /\ lastCall.code = 409
    /\ PairCount(store, CallId, lastCall.date) = 1
    /\ Len(store) >= 2

\* C4: of two mark calls in sequence for one (student_id, date) pair that the
\* table does not hold, the first is answered with success and inserts the
\* one row of the pair, the second is answered 409 and leaves the table as
\* it is (the database answering both).
C4_MarkTwice ==
    (lastCall.code \notin {0, 400} /\ lastCall.db) =>
        /\ lastCall.had = 0 =>
              /\ lastCall.code = 200
              /\ lastCall.changed
              /\ PairCount(store, CallId, lastCall.date) = 1
        /\ lastCall.after200 =>
              /\ lastCall.code = 409
              /\ ~lastCall.changed

\* The second of two calls on an empty table has been answered 409.
C4_Witness ==
    /\ lastCall.after200
    /\ lastCall.code = 409
    /\ Len(store) = 1
    /\ store[1].student_id = CallId
    /\ store[1].date = lastCall.date

\* student_id missing, null, zero, or not a number to Number().
IsBadStudentId(v) ==
    \/ v.t \in {"undefined", "null"}
    \/ ToNumber(v).t = "NaN"
    \/ ToNumber(v) = Num(0)

C1_OneRecordPerStudentDay ==
    \A i \in 1..Len(store) : PairCount(store, store[i].student_id, store[i].date) <= 1

\* C3: when mark requests of one (student_id, date) pair are handled
\* concurrently, the table ends with at most one row of the pair and at
\* most one of the requests is answered with success.
C3_ConcurrentMarksUnique ==
    /\ \A i, j \in 1..Len(store) :
          (i # j /\ store[i].student_id = store[j].student_id)
              => store[i].date # store[j].date
    /\ ~\E a, b \in ReqIds :
          /\ a # b
          /\ reqs[a].kind = "mark" /\ reqs[b].kind = "mark"
          /\ reqs[a].st = "done" /\ reqs[b].st = "done"
          /\ reqs[a].code = 200 /\ reqs[b].code = 200
          /\ reqs[a].row.student_id = reqs[b].row.student_id
          /\ reqs[a].row.date = reqs[b].row.date

\* C5: when the scanner's mark request is answered 409, the return of
\* markAttendanceForLabel leaves the offline queue as it was.
C5_ConflictNotQueued ==
    [][\A r \in ReqIds :
          (reqs[r].owner = "scan" /\ reqs[r].st = "done" /\ reqs[r].code = 409
             /\ reqs'[r] = NoReq)
              => queue' = queue]_vars

\* C7: of two detections of one label in a row, the first accepted, the
\* second leads to a request or an enqueue exactly when it comes 45 s or
\* more after the first; an accepted detection leaves its time as the
\* label's last-emitted time.
C7_Debounce ==
    /\ (lastDet.label # "" /\ lastDet.prevLabel = lastDet.label /\ lastDet.prevEmitted)
          => (lastDet.emitted <=> lastDet.at - lastDet.prevAt >= 45 * 1000)
    /\ (lastDet.label # "" /\ lastDet.emitted)
          => recentMarks[lastDet.label] = lastDet.at

\* A detection less than 45 s after an accepted one of its label has been
\* suppressed.
C7_Witness ==
    /\ lastDet.label # ""
    /\ lastDet.prevLabel = lastDet.label
    /\ lastDet.prevEmitted
    /\ lastDet.at > lastDet.prevAt
    /\ lastDet.at - lastDet.prevAt < 45 * 1000
    /\ ~lastDet.emitted
    /\ recentMarks[lastDet.label] = lastDet.prevAt

\* C8: a flush of N queued records of pairwise distinct (student_id, date)
\* pairs, none of them in the table, that reaches a server whose database
\* answers, is answered with success and leaves exactly N new rows, one per
\* record; the flush that the server confirmed leaves the queue empty.
C8_OfflineRoundTrip ==
    /\ (lastSync.owner = "flush" /\ lastSync.fresh /\ lastSync.db)
          => (lastSync.code = 200 /\ lastSync.exact)
    /\ lastFlush.ok => lastFlush.left = 0

\* Two records queued on two days have been flushed in one batch: the
\* table holds their two rows and the queue is empty.
C8_Witness ==
    /\ lastSync.owner = "flush" /\ lastSync.n = 2 /\ lastSync.fresh
    /\ lastSync.code = 200 /\ lastSync.exact
    /\ lastFlush.ok /\ lastFlush.n = 2
    /\ queue = <<>>
    /\ Len(store) = 2
    /\ store[1].date # store[2].date
    /\ store[1].method = "face" /\ store[2].method = "face"

\* C9: a flush that the server confirmed removes from the queue no more
\* than its batch: the records the queue holds beyond the batch are still
\* in the queue when the flush returns.
C9_LateRecordKept ==
    lastFlush.ok => lastFlush.left >= lastFlush.before - lastFlush.n

\* C10: when the mark request of a resolved student fails, because fetch
\* threw or because the server answered 5xx, the record is in the offline
\* queue when markAttendanceForLabel returns.
C10_FailedMarkQueued ==
    (lastRet.st = "failed" \/ (lastRet.st = "done" /\ lastRet.code >= 500))
        => lastRet.held

\* A mark answered 500 has returned while the queue held the record of an
\* earlier failed mark: both records are in the queue and the table is empty.
C10_Witness ==
    /\ lastRet.st = "done"
    /\ lastRet.code = 500
    /\ lastRet.held
    /\ Len(queue) = 2
    /\ queue[1].student_id = Num(1)
    /\ queue[2].student_id = Num(1)
    /\ store = <<>>

\* C11: a call of markAttendanceForLabel that passes the debounce for a
\* label without a student id in the map sends no request and appends
\* exactly one record to the offline queue, with the raw label and
\* synced false.
C11_UnresolvedLabelQueued ==
    [][\A l \in Labels, dist \in Distances :
          (/\ MarkAttendanceBody(l, dist)
           /\ ~(recentMarks[l] # 0 /\ now - recentMarks[l] < 45 * 1000)
           /\ l \notin DOMAIN labelToStudentId)
              => /\ reqs' = reqs
                 /\ Len(queue') = Len(queue) + 1
                 /\ SubSeq(queue', 1, Len(queue)) = queue
                 /\ queue'[Len(queue')].roll_number = l
                 /\ queue'[Len(queue')].student_id = Null
                 /\ queue'[Len(queue')].synced = FALSE]_vars

\* The record of an unresolved label is in the queue, the students map
\* loaded, and no request was sent for it.
C11_Witness ==
    /\ Len(queue) = 1
    /\ queue[1].roll_number = "id_3"
    /\ queue[1].student_id = Null
    /\ queue[1].synced = FALSE
    /\ "id_3" \notin DOMAIN labelToStudentId
    /\ labelToStudentId # EmptyMap
    /\ recentMarks["id_3"] = now
    /\ \A r \in ReqIds : reqs[r].st = "free"
    /\ store = <<>>

(***************************************************************************)
(* SpecBatch: the batch scanner, its queue and its page loads.             *)
(***************************************************************************)
NextBatch ==
    \/ Tick
    \/ NetDown
    \/ NetUp
    \/ DbDown
    \/ DbUp
    \/ \E camOk, playOk \in BOOLEAN : Start1(camOk, playOk)
    \/ TimerFire1
    \/ \E frame \in Frames1, dist \in Distances : Detect1(frame, dist)
    \/ \E r \in ReqIds : NetFail(r)
    \/ \E r \in ReqIds : ServeSync(r)
    \/ \E r \in ReqIds : Return1(r)
    \/ SyncStart1
    \/ \E r \in ReqIds : SyncReturn1(r)
    \/ Reload1

SpecBatch == InitBatch /\ [][NextBatch]_vars

\* C12: a page load leaves the records of the offline queue unchanged, so
\* the first drain after it returns every record queued before it.
C12_QueueDurable ==
    [][(Reload \/ Reload1)
          => /\ queue' = queue
             /\ SrmGetAll(srmQueue') = SrmGetAll(srmQueue)]_vars

(***************************************************************************)
(* SpecFlush: the two scanners filling and flushing their queues.          *)
(***************************************************************************)
NextFlush ==
    \/ NetDown
    \/ NetUp
    \/ DbDown
    \/ DbUp
    \/ \E camOk, playOk \in BOOLEAN : StartCameraAndDetect(camOk, playOk)
    \/ \E l \in Labels, dist \in Distances : MarkAttendanceForLabel(l, dist)
    \/ \E r \in ReqIds : NetFail(r)
    \/ \E r \in ReqIds : ServeMarkSelect(r)
    \/ \E r \in ReqIds : ServeMarkInsert(r)
    \/ \E r \in ReqIds : MarkReturn(r)
    \/ FlushStart
    \/ \E r \in ReqIds : ServeSync(r)
    \/ \E r \in ReqIds : ObservedFlushReturn(r)
    \/ \E camOk, playOk \in BOOLEAN : Start1(camOk, playOk)
    \/ TimerFire1
    \/ \E frame \in Frames1, dist \in Distances : Detect1(frame, dist)
    \/ \E r \in ReqIds : Return1(r)
    \/ SyncStart1
    \/ \E r \in ReqIds : SyncReturn1(r)

SpecFlush == Init /\ [][NextFlush]_vars

\* C13: a flush whose sync request failed, by a fetch that threw or by an
\* answer outside 200..299, leaves the offline queue as it was: the same
\* records in the same order.
C13_FailedFlushKeepsQueue ==
    [][\A r \in ReqIds :
          LET failed == \/ reqs[r].st = "failed"
                        \/ reqs[r].st = "done" /\ reqs[r].code \notin 200..299
          IN  /\ (FlushReturned(r) /\ failed) => queue' = queue
              /\ (SyncReturn1(r) /\ failed) => srmQueue' = srmQueue]_vars

\* A flush of two records has failed and the two records are in the queue.
C13_Witness ==
    /\ ~lastFlush.ok
    /\ lastFlush.n = 2
    /\ lastFlush.before = 2
    /\ lastFlush.left = 2
    /\ Len(queue) = 2
    /\ \A r \in ReqIds : reqs[r].owner # "flush"

(***************************************************************************)
(* SpecSync: other callers of POST /attendance/sync, each batch logged.    *)
(***************************************************************************)
NextSync ==
    \/ \E shape \in SyncShapes, recs \in ExtBatches : ExtPostSync(shape, recs)
    \/ \E r \in ReqIds : ObservedServeSync(r)
    \/ \E r \in ReqIds : ExtReceive(r)
    \/ Midnight
    \/ DbDown
    \/ DbUp

SpecSync == Init /\ [][NextSync]_vars

\* C14: a sync request whose body has no records field, or whose records
\* field is not an array or is an empty array, is answered 400 and adds no
\* row to the table.
C14_NoRecordsRejected ==
    [][\A r \in ReqIds :
          (SyncServed(r) /\ (reqs[r].shape # "records" \/ Len(reqs[r].recs) = 0))
              => (reqs'[r].code = 400 /\ store' = store)]_vars

\* C15: a sync request with an array of N > 0 records is answered 200 with
\* inserted = N and the table grown by the N rows of its records, in
\* order, or it is answered 500 and the table is as it was.
C15_SyncAllOrNothing ==
    [][\A r \in ReqIds :
          LET arr == reqs[r].recs
              n == Len(arr)
          IN  (SyncServed(r) /\ reqs[r].shape = "records" /\ n > 0)
                  => \/ /\ reqs'[r].code = 200
                        /\ SyncInserted(arr, now) = n
                        /\ Len(store') = Len(store) + n
                        /\ SubSeq(store', 1, Len(store)) = store
                        /\ \A i \in 1..n :
                              store'[Len(store) + i] = BulkRow(arr[i], now)
                     \/ /\ reqs'[r].code = 500
                        /\ store' = store]_vars

\* A batch of one record has been inserted, and a later batch of two
\* records, one of them without a student id, has been answered 500 with
\* the database up: the table holds the one row.
C15_Witness ==
    /\ lastSync.owner = "ext"
    /\ lastSync.n = 2
    /\ lastSync.code = 500
    /\ lastSync.db
    /\ Len(store) = 1
    /\ \E r \in ReqIds :
          /\ reqs[r].st = "done" /\ reqs[r].code = 500 /\ Len(reqs[r].recs) = 2
          /\ DbAccepts(reqs[r].recs[1].student_id)
          /\ ~DbAccepts(reqs[r].recs[2].student_id)

(***************************************************************************)
(* SpecLoop: the capture loop of the marking scanner, step by step.        *)
(***************************************************************************)
NextLoop ==
    \/ Tick
    \/ NetDown
    \/ NetUp
    \/ \E camOk, playOk \in BOOLEAN : StartCameraAndDetect(camOk, playOk)
    \/ StopCamera
    \/ TimerFire
    \/ \E l \in Labels, dist \in Distances : ScanMark(l, dist)
    \/ ScanEnd
    \/ \E r \in ReqIds : NetFail(r)
    \/ \E r \in ReqIds : ServeMarkSelect(r)
    \/ \E r \in ReqIds : ServeMarkInsert(r)
    \/ \E r \in ReqIds : ScanMarkReturn(r)
    \/ Reload

SpecLoop == Init /\ [][NextLoop]_vars

(***************************************************************************)
(* SpecStop: start and stop of the two capture loops.                      *)
(***************************************************************************)
NextStop ==
    \/ \E camOk, playOk \in BOOLEAN : StartCameraAndDetect(camOk, playOk)
    \/ StopCamera
    \/ TimerFire
    \/ \E l \in Labels, dist \in Distances : ScanMark(l, dist)
    \/ ScanEnd
    \/ \E r \in ReqIds : ServeMarkSelect(r)
    \/ \E r \in ReqIds : ServeMarkInsert(r)
    \/ \E r \in ReqIds : ScanMarkReturn(r)
    \/ \E camOk, playOk \in BOOLEAN : Start1(camOk, playOk)
    \/ Stop1
    \/ TimerFire1
    \/ \E frame \in Frames1, dist \in Distances : Detect1(frame, dist)
    \/ \E r \in ReqIds : ServeSync(r)
    \/ \E r \in ReqIds : Return1(r)

SpecStop == Init /\ [][NextStop]_vars

\* C16: at most one scan step of the capture loop is in flight at any
\* time: a timer callback does not start a step while an earlier step is
\* detecting or awaiting its mark call.
C16_NoOverlappingScans == ScansInFlight <= 1

\* C17: while the loop is stopped, a scan step that was in flight at the
\* stop sends no mark request and queues no record.
C17_NoEffectAfterStop ==
    [][(/\ ~detectInterval
        /\ \/ \E l \in Labels, dist \in Distances : ScanMark(l, dist)
           \/ \E r \in ReqIds : ScanMarkReturn(r))
          => /\ queue' = queue
             /\ \A r \in ReqIds : reqs'[r].st = "sent" => reqs[r].st = "sent"]_vars

\* C18: a start of an idle loop that fails, at the load of the reference
\* set, at the camera or at the playback of the video, leaves the loop
\* idle: no timer is scheduled and no camera stream is live.
C18_FailedStartIsIdle ==
    [][\A camOk, playOk \in BOOLEAN :
          (/\ StartCameraAndDetect(camOk, playOk)
           /\ ~detectInterval
           /\ stream # "live"
           /\ ~(camOk /\ playOk /\ net /\ dbOk))
              => /\ ~detectInterval'
                 /\ stream' # "live"
                 /\ lostStreams' = lostStreams]_vars

\* C19: a stop of a running loop leaves no timer scheduled and no camera
\* track live.
C19_StopReleases ==
    [][/\ (StopCamera /\ detectInterval)
             => (~detectInterval' /\ stream' # "live" /\ lostStreams' = 0)
       /\ (Stop1 /\ detectionsInterval)
             => (~detectionsInterval' /\ stream1' # "live" /\ lostStreams1' = 0)]_vars

\* C20: a stop of an idle loop changes neither the timer, the stream, the
\* debounce map nor the queue, and a stop after a stop changes nothing.
C20_StopIdempotent ==
    [][/\ (StopCamera /\ ~detectInterval /\ stream # "live")
             => UNCHANGED <<detectInterval, stream, lostStreams, recentMarks,
                            queue, scans>>
       /\ StopCamera
             => /\ StopTimer(detectInterval') = detectInterval'
                /\ StopStream(stream') = stream'
       /\ (Stop1 /\ ~detectionsInterval /\ stream1 # "live")
             => UNCHANGED <<detectionsInterval, stream1, lostStreams1, lastScan,
                            srmQueue, steps1, frameVars>>
       /\ Stop1 => (~detectionsInterval' /\ stream1' = "none")]_vars

\* The loop has been stopped after a detection was queued: no timer, the
\* stream stopped, the debounce map and the queue not empty.
C20_Witness ==
    /\ ~detectInterval
    /\ stream = "stopped"
    /\ scans = 0
    /\ Len(queue) = 1
    /\ recentMarks["id_3"] # 0
    /\ ~detectionsInterval
    /\ stream1 = "none"
    /\ faceMatcher1

(***************************************************************************)
(* SpecOverlap: one session of the capture loop with overlapping steps,    *)
(* each call of markAttendanceForLabel logged.                             *)
(***************************************************************************)
NextOverlap ==
    \/ Tick
    \/ NetDown
    \/ NetUp
    \/ \E camOk, playOk \in BOOLEAN : StartCameraAndDetect(camOk, playOk)
    \/ TimerFire
    \/ \E l \in Labels, dist \in Distances : ObservedScanMark(l, dist)
    \/ ScanEnd
    \/ \E r \in ReqIds : NetFail(r)
    \/ \E r \in ReqIds : ServeMarkSelect(r)
    \/ \E r \in ReqIds : ServeMarkInsert(r)
    \/ \E r \in ReqIds : ScanMarkReturn(r)

SpecOverlap == Init /\ [][NextOverlap]_vars

\* The label and the time of the attempts whose record is in flight as a
\* mark request of the page or waits in the offline queue.
C21_Attempts ==
    {<<reqs[r].label, reqs[r].recs[1].timestamp>> :
        r \in {x \in ReqIds : reqs[x].owner = "scan"}}
    \cup {<<IF queue[i].roll_number # "" THEN queue[i].roll_number
            ELSE CHOOSE l \in Labels :
                    MapGet(StudentsMap, l) = queue[i].student_id.n,
            queue[i].timestamp>> : i \in 1..Len(queue)}

C21_Pending ==
    Cardinality({r \in ReqIds : reqs[r].owner = "scan"}) + Len(queue)

\* C21: within one session, every call of markAttendanceForLabel that
\* sends a mark request or queues a record for a label comes 45 s or more
\* after the last such call for the label, also when scan steps overlap
\* and when a step calls it again for the same label; the mark requests
\* in flight and the queued records of one label are 45 s or more apart.
C21_OneAttemptPerWindow ==
    /\ [](/\ \A a, b \in C21_Attempts :
                (a[1] = b[1] /\ a # b)
                    => (a[2] - b[2] >= 45 * 1000 \/ b[2] - a[2] >= 45 * 1000)
          /\ Cardinality(C21_Attempts) = C21_Pending)
    /\ [][\A l \in Labels, dist \in Distances :
             (ObservedScanMark(l, dist) /\ (queue' # queue \/ reqs' # reqs))
                 => /\ recentMarks[l] = 0 \/ now - recentMarks[l] >= 45 * 1000
                    /\ recentMarks'[l] = now]_vars

\* Two steps are in flight: the first awaits its mark request for R1, sent
\* less than 45 s ago, and the second has called markAttendanceForLabel for
\* R1 and has been suppressed.
C21_Witness ==
    /\ scans = 1
    /\ \E r \in ReqIds :
          /\ reqs[r].owner = "scan"
          /\ reqs[r].label = "R1"
          /\ now - reqs[r].recs[1].timestamp < 45 * 1000
          /\ now > reqs[r].recs[1].timestamp
    /\ lastDet.label = "R1"
    /\ lastDet.at = now
    /\ ~lastDet.emitted
    /\ lastDet.prevLabel = "R1"
    /\ lastDet.prevEmitted

(***************************************************************************)
(* The status a mark request stores.                                       *)
(***************************************************************************)
\* The mark endpoint called with well-formed student ids, one call at a time.
PairIds == {Num(1), Str("2")}

PairBodies == {Body(s, d, v) : s \in PairIds, d \in Dates \cup {NoDate}, v \in Variants}

NextMarkPairs ==
    \/ \E body \in PairBodies : MarkCall(body)
    \/ Midnight
    \/ DbDown
    \/ DbUp

SpecMarkPairs == Init /\ [][NextMarkPairs]_vars

\* C22: every row a mark request inserts has a status among present, absent
\* and late: the status of the request when it is one of the three, present
\* when the request has none or an unrecognized one.
C22_MarkStatusNormalised ==
    [][\A body \in PairBodies :
          (MarkCall(body) /\ store' # store) =>
              /\ Len(store') = Len(store) + 1
              /\ store'[Len(store')].status \in {"present", "absent", "late"}
              /\ store'[Len(store')].status =
                    (IF body.status \in {"present", "absent", "late"}
                     THEN body.status ELSE "present")]_vars

\* A request with the unrecognized status "holiday" (the one sent with the
\* method "kiosk") was stored as present, next to a row stored as late.
C22_Witness ==
    /\ lastCall.code = 200
    /\ Len(store) = 2
    /\ store[2].method = "kiosk"
    /\ store[2].status = "present"
    /\ store[1].status = "late"

\* The (student_id, date) pairs of a table.
Pairs(tbl) == {<<tbl[i].student_id, tbl[i].date>> : i \in 1..Len(tbl)}

\* C24: two runs of the mark handler from one table, on requests that differ
\* only in status, method or confidence, are answered with the same code and
\* leave tables with the same set of (student_id, date) pairs.
C24_OutcomeIgnoresProvenance ==
    \A s \in IdInputs, d \in Dates \cup {NoDate}, v1 \in Variants, v2 \in Variants :
        LET r1 == MarkHandle(store, Body(s, d, v1), now, dbOk)
            r2 == MarkHandle(store, Body(s, d, v2), now, dbOk)
        IN  /\ r1[1] = r2[1]
            /\ Pairs(r1[2]) = Pairs(r2[2])

\* From a table that holds a manual row of student 1 on day 2, the runs on
\* two requests of different method are both answered 409 for that pair, and
\* both answered 200 with different rows for student 2.
C24_Witness ==
    /\ dbOk
    /\ Len(store) = 1
    /\ store[1].student_id = 1 /\ store[1].date = 2 /\ store[1].method = "manual"
    /\ lastCall.code = 200
    /\ \E v1 \in Variants, v2 \in Variants :
          /\ v1.method # v2.method
          /\ MarkHandle(store, Body(Num(1), 2, v1), now, dbOk)[1] = 409
          /\ MarkHandle(store, Body(Num(1), 2, v2), now, dbOk)[1] = 409
          /\ MarkHandle(store, Body(Str("2"), 2, v1), now, dbOk)[1] = 200
          /\ MarkHandle(store, Body(Str("2"), 2, v2), now, dbOk)[1] = 200
          /\ MarkHandle(store, Body(Str("2"), 2, v1), now, dbOk)[2]
                # MarkHandle(store, Body(Str("2"), 2, v2), now, dbOk)[2]

\* C25: a mark request for a pair (S, D) of which the table holds no row is
\* answered with success whatever rows of other students or other dates the
\* table holds (the database answering), and the step appends the row of
\* (S, D) and leaves every other row as it was.
C25_PairsIndependent ==
    [][\A body \in PairBodies :
          LET sid == MarkStudentId(body.student_id).n
              d == MarkDate(body.date, now)
          IN  (MarkCall(body) /\ dbOk /\ PairCount(store, sid, d) = 0) =>
                  /\ lastCall'.code = 200
                  /\ Len(store') = Len(store) + 1
                  /\ store'[Len(store')].student_id = sid
                  /\ store'[Len(store')].date = d
                  /\ \A i \in 1..Len(store) : store'[i] = store[i]]_vars

\* A mark for student 2 succeeded on a table that held a row of student 1
\* for the same date, and that row is as it was.
C25_Witness ==
    /\ lastCall.code = 200
    /\ lastCall.had = 0
    /\ Len(store) = 2
    /\ store[1].student_id = 1
    /\ store[2].student_id = 2
    /\ store[1].date = store[2].date
    /\ store[1].status = "late"

\* C26: every row of the attendance table has a number as its student_id,
\* and a sync request that carries a record without one (a queued record of
\* an unresolved label among them) is answered 500 and adds no row.
C26_StoredStudentIdNumeric ==
    /\ [](\A i \in 1..Len(store) : store[i].student_id \in Nat)
    /\ [][\A r \in ReqIds :
             (/\ ServeSync(r)
              /\ \E i \in 1..Len(reqs[r].recs) :
                    reqs[r].recs[i].student_id.t \in {"null", "undefined"})
                 => /\ store' = store
                    /\ reqs'[r].code = 500]_vars

\* A flush of two queued records, the first of the unresolved label id_3
\* and without a student_id, the second with one, has been answered 500; the
\* database is up and the table holds the one row it held before.
C26_Witness ==
    /\ dbOk
    /\ Len(store) = 1
    /\ \E r \in ReqIds :
          /\ reqs[r].owner = "flush"
          /\ reqs[r].st = "done"
          /\ reqs[r].code = 500
          /\ Len(reqs[r].recs) = 2
          /\ reqs[r].recs[1].roll_number = "id_3"
          /\ reqs[r].recs[1].student_id = Null
          /\ reqs[r].recs[2].student_id = Num(1)

(***************************************************************************)
(* POST /api/attendance, the alias for older clients, and the three        *)
(* endpoints that insert rows called by one client, a request at a time.   *)
(***************************************************************************)
\* The row of a single object: date || today, status = 'present' and
\* method = 'face_scan' for a missing field, the values as sent otherwise.
LegacyRow(rec, t) ==
    Row(DbStudentId(rec.student_id),
        IF rec.date # NoDate THEN rec.date ELSE Today(t),
        IF rec.status # "" THEN rec.status ELSE "present",
        IF rec.method # "" THEN rec.method ELSE "face_scan",
        rec.confidence)

\* The handler on a body that is an object (recs holds it) or an array of
\* records: <<code, table>>.  An empty array reaches the INSERT, which the
\* database refuses.
LegacyHandle(tbl, shape, recs, t, db) ==
    IF shape = "object" /\ Len(recs) = 1 /\ Truthy(recs[1].student_id)
    THEN IF db /\ DbAccepts(recs[1].student_id)
         THEN <<200, Append(tbl, LegacyRow(recs[1], t))>>
         ELSE <<500, tbl>>
    ELSE IF shape = "array"
    THEN IF Len(recs) > 0 /\ BulkInsertOk(recs, db)
         THEN <<200, tbl \o BulkRows(recs, t)>>
         ELSE <<500, tbl>>
    ELSE <<400, tbl>>

EndpointRecords ==
    {ExtRecord(Num(1), 2),
     [ExtRecord(Num(1), NoDate) EXCEPT !.status = "holiday"],
     ExtRecord(Null, 2)}

EndpointBatches == UNION {[1..n -> EndpointRecords] : n \in 0..MaxBatch}

\* One call of POST /api/attendance that completes before the next starts.
LegacyCall(shape, recs) ==
    LET r == LegacyHandle(store, shape, recs, now, dbOk)
    IN  /\ Len(r[2]) <= MaxStore
        /\ shape = "object" => Len(recs) <= 1
        /\ store' = r[2]
        /\ lastCall' = [NoCall EXCEPT !.code = r[1], !.db = dbOk,
                                      !.changed = (r[2] # store)]
        /\ UNCHANGED <<captureVars, now, net, dbOk, reqs, labelToStudentId, faceMatcher,
                       detectInterval, recentMarks, queue, sessionMarked,
                       lastDet, lastRet, lastSync, lastFlush>>

NextEndpoints ==
    \/ \E v \in Variants : MarkCall(Body(Num(1), 2, v))
    \/ \E shape \in {"object", "array"}, recs \in EndpointBatches : LegacyCall(shape, recs)
    \/ \E shape \in {"records", "array"}, recs \in EndpointBatches : ExtPostSync(shape, recs)
    \/ \E r \in ReqIds : ServeSync(r)
    \/ \E r \in ReqIds : ExtReceive(r)
    \/ DbDown
    \/ DbUp

SpecEndpoints == Init /\ [][NextEndpoints]_vars

MAX_FACES == 10

Face(who, dist, area) == [who |-> who, dist |-> dist, area |-> area]

\* faceMatcher.findBestMatch(det.descriptor).label of the marking scanner:
\* the label of the student's embedding, 'unknown' beyond the threshold.
FindBestMatch(matcher, det) ==
    LET ls == {l \in matcher : \E i \in 1..Len(Students) :
                                  Students[i].id = det.who /\ EmbLabel(Students[i]) = l}
    IN  IF ls = {} THEN "unknown" ELSE CHOOSE l \in ls : TRUE

\* The same of the batch scanner, whose labels are student ids.
FindBestMatch1(det) == IF det.who = 0 THEN "unknown" ELSE StringOf(det.who)

\* A crowd: MAX_FACES unknown faces and, last in the detector's order, the
\* known face `who` with the box area `area`.
Crowd(who, area) ==
    [i \in 1..(MAX_FACES + 1) |->
        IF i <= MAX_FACES THEN Face(0, 6000, 20 + i) ELSE Face(who, 3000, area)]

\* What detectAllFaces resolves with.
Frames ==
    {<<>>,
     <<Face(0, 6000, 4)>>,
     <<Face(1, 4000, 9), Face(1, 3000, 4)>>,
     <<Face(1, 3000, 9), Face(3, 3500, 4)>>,
     Crowd(1, 2)}

\* Frames with a face the matcher does not know.
UnknownFrames ==
    {<<Face(0, 6000, 4)>>,
     <<Face(0, 6000, 9), Face(1, 3000, 4)>>,
     Crowd(1, 2)}

\* detections.sort((a,b) => area(b) - area(a)): descending by area, equal
\* areas in their order.
SortByArea(dets) ==
    LET rank(i) == 1 + Cardinality({j \in 1..Len(dets) :
                                      \/ dets[j].area > dets[i].area
                                      \/ dets[j].area = dets[i].area /\ j < i})
    IN  [k \in 1..Len(dets) |-> dets[CHOOSE i \in 1..Len(dets) : rank(i) = k]]

\* detections.sort(...).slice(0, MAX_FACES)
ToProcess1(dets) ==
    SubSeq(SortByArea(dets), 1, IF Len(dets) < MAX_FACES THEN Len(dets) ELSE MAX_FACES)

\* The labels of results, in order.
Results1(dets) ==
    LET toProcess == ToProcess1(dets)
    IN  [i \in 1..Len(toProcess) |-> FindBestMatch1(toProcess[i])]

\* A scan step of the batch scanner from the detections of its frame.
ScanFaces1(dets, dist) == Detect1(Results1(dets), dist)

\* Mutant: without a matcher the callback reports what it reports for a
\* face it does not recognize.
CallbackReport_NoMatch(n, matcher) ==
    IF n = 0 THEN "Detected faces: 0"
    ELSE IF matcher = {} THEN "No confident match for detected face."
    ELSE "Detected faces: n"

\* The status line the callback leaves before its loop, for n valid faces.
CallbackReport(n, matcher) ==
    IF n = 0 THEN "Detected faces: 0"
    ELSE IF matcher = {} THEN "Detected faces: n - matcher not ready"
    ELSE "Detected faces: n"

\* The timer callback of the marking scanner up to its loop: no face, no
\* matcher, or the loop over the faces.
CallbackStart(dets) ==
    /\ detectInterval
    /\ cbStep = "idle"
    /\ cbDone' = <<>>
    /\ statusLine' = CallbackReport(Len(dets), faceMatcher)
    /\ IF Len(dets) = 0 \/ faceMatcher = {}
       THEN UNCHANGED <<valid, cbStep>>
       ELSE /\ valid' = dets
            /\ cbStep' = "loop"
    /\ UNCHANGED <<now, net, dbOk, store, reqs, labelToStudentId, faceMatcher,
                   detectInterval, recentMarks, queue, sessionMarked, logVars,
                   stream, lostStreams, scans, srmDurable, srmQueue,
                   detectionsInterval, stream1, lastScan, steps1, faceMatcher1,
                   lostStreams1, adminVars>>

\* One pass of the loop.  A matcher set to null meanwhile makes
\* findBestMatch throw, and the catch of the callback ends it.
CallbackFace ==
    /\ cbStep = "loop"
    /\ Len(valid) > 0
    /\ LET det == Head(valid)
           best == FindBestMatch(faceMatcher, det)
       IN  IF faceMatcher = {}
           THEN /\ cbStep' = "idle"
                /\ UNCHANGED <<valid, cbDone, statusLine, recentMarks, queue, reqs,
                               now, net, dbOk, store, labelToStudentId, faceMatcher,
                               detectInterval, sessionMarked, lastCall, lastRet,
                               lastSync, lastFlush, stream, lostStreams, srmDurable,
                               srmQueue, detectionsInterval, stream1, lastScan,
                               steps1, faceMatcher1, lostStreams1>>
           ELSE /\ valid' = Tail(valid)
                /\ cbDone' = Append(cbDone, det)
                /\ IF best # "unknown"
                   THEN /\ MarkAttendanceCall(best, det.dist)
                        /\ statusLine' = IF queue' # queue THEN "Matched label but student id not resolved. Queued."
                                         ELSE "Match"
                        /\ cbStep' = IF reqs' # reqs THEN "await" ELSE "loop"
                   ELSE /\ statusLine' = "No confident match for detected face."
                        /\ UNCHANGED <<cbStep, recentMarks, queue, reqs,
                                       now, net, dbOk, store, labelToStudentId,
                                       faceMatcher, detectInterval, sessionMarked,
                                       lastCall, lastRet, lastSync, lastFlush, stream,
                                       lostStreams, srmDurable, srmQueue,
                                       detectionsInterval, stream1, lastScan, steps1,
                                       faceMatcher1, lostStreams1>>
    /\ UNCHANGED <<scans, lastDet, adminVars>>

\* The request of the pass returns and the loop goes on.
CallbackReturn(r) ==
    /\ cbStep = "await"
    /\ MarkReturned(r)
    /\ cbStep' = "loop"
    /\ statusLine' = IF reqs[r].st = "done" /\ RespOk(reqs[r].code) THEN "Attendance marked"
                     ELSE IF reqs[r].st = "done" THEN "Attendance API error"
                     ELSE statusLine
    /\ UNCHANGED <<valid, cbDone, scans, lastRet, adminVars>>

\* The loop has no face left.
CallbackEnd ==
    /\ cbStep = "loop"
    /\ Len(valid) = 0
    /\ cbStep' = "idle"
    /\ UNCHANGED <<now, net, dbOk, store, reqs, labelToStudentId, faceMatcher,
                   detectInterval, recentMarks, queue, sessionMarked, logVars,
                   stream, lostStreams, scans, srmDurable, srmQueue,
                   detectionsInterval, stream1, lastScan, steps1, faceMatcher1,
                   lostStreams1, valid, cbDone, statusLine, adminVars>>

\* The marking scanner, its frames of every kind, and the server.
NextFrame ==
    \/ Tick
    \/ NetDown
    \/ NetUp
    \/ \E camOk, playOk \in BOOLEAN : StartCameraAndDetect(camOk, playOk)
    \/ \E dets \in Frames : CallbackStart(dets)
    \/ CallbackFace
    \/ \E r \in ReqIds : CallbackReturn(r)
    \/ CallbackEnd
    \/ \E r \in ReqIds : NetFail(r)
    \/ \E r \in ReqIds : ServeMarkSelect(r)
    \/ \E r \in ReqIds : ServeMarkInsert(r)

SpecFrame == Init /\ [][NextFrame]_vars

\* The two scanners in front of frames with an unknown face, the server
\* reachable.
NextUnknown ==
    \/ Tick
    \/ \E camOk, playOk \in BOOLEAN : StartCameraAndDetect(camOk, playOk)
    \/ \E dets \in UnknownFrames : CallbackStart(dets)
    \/ CallbackFace
    \/ \E r \in ReqIds : CallbackReturn(r)
    \/ CallbackEnd
    \/ \E r \in ReqIds : ServeMarkSelect(r)
    \/ \E r \in ReqIds : ServeMarkInsert(r)
    \/ \E camOk, playOk \in BOOLEAN : Start1(camOk, playOk)
    \/ TimerFire1
    \/ \E dets \in UnknownFrames, dist \in Distances : ScanFaces1(dets, dist)
    \/ \E r \in ReqIds : ServeSync(r)
    \/ \E r \in ReqIds : Return1(r)

SpecUnknown == Init /\ [][NextUnknown]_vars

\* The faces of a frame the batch scanner processes and knows.
Known1(dets) == SelectSeq(ToProcess1(dets), LAMBDA det : FindBestMatch1(det) # "unknown")

\* Results1 and Known1 of the frames with an unknown face, tabulated.
UnknownResults1 == [dets \in UnknownFrames |-> Results1(dets)]

UnknownKnown1 == [dets \in UnknownFrames |-> Known1(dets)]

\* C27: a face whose best match is 'unknown' produces no attendance record.
\* A pass of the marking scanner's loop over such a face sends no request,
\* queues nothing and accepts no mark; a scan step of the batch scanner
\* posts one record per known face it processes and nothing when it knows
\* none; and no request, queued record or row carries the label 'unknown'
\* or a student_id made from it.
C27_UnknownNeverRecorded ==
    /\ [](/\ \A r \in ReqIds :
               /\ reqs[r].label # "unknown"
               /\ \A i \in 1..Len(reqs[r].recs) :
                     reqs[r].owner \in {"scan", "batch"}
                         => reqs[r].recs[i].student_id.t = "number"
          /\ \A i \in 1..Len(queue) : queue[i].roll_number # "unknown"
          /\ \A i \in 1..Len(srmQueue) : srmQueue[i].student_id.t = "number")
    /\ [][/\ (/\ cbDone' # cbDone
              /\ CallbackFace
              /\ faceMatcher # {}
              /\ FindBestMatch(faceMatcher, Head(valid)) = "unknown")
                 => UNCHANGED <<reqs, queue, recentMarks, store>>
          /\ \A dets \in UnknownFrames, dist \in Distances :
                (steps1' < steps1 /\ Detect1(UnknownResults1[dets], dist)) =>
                    LET known == UnknownKnown1[dets]
                    IN  IF Len(known) = 0
                        THEN UNCHANGED <<reqs, srmQueue, store>>
                        ELSE /\ UNCHANGED <<srmQueue, store>>
                             /\ \E r \in ReqIds :
                                   /\ reqs[r] = NoReq
                                   /\ Len(reqs'[r].recs) = Len(known)
                                   /\ \A i \in 1..Len(known) :
                                         reqs'[r].recs[i].student_id = Num(known[i].who)]_vars

\* The loop of the marking scanner has passed the unknown face of a frame
\* and has the known face of the frame still to match; nothing is in
\* flight, queued or stored.
C27_Witness ==
    /\ cbStep = "loop"
    /\ cbDone = <<Face(0, 6000, 9)>>
    /\ valid = <<Face(1, 3000, 4)>>
    /\ statusLine = "No confident match for detected face."
    /\ \A r \in ReqIds : reqs[r] = NoReq
    /\ queue = <<>>
    /\ store = <<>>

C29_BestOccurrenceOnly ==
    [][(/\ cbDone' # cbDone
        /\ CallbackFace
        /\ (reqs' # reqs \/ queue' # queue))
           => LET det == Head(valid)
                  frame == cbDone \o valid
              IN  \A i \in 1..Len(frame) :
                     frame[i].who = det.who => det.dist <= frame[i].dist]_vars

\* C30: a scan step gives at most MAX_FACES faces of its frame to the
\* matcher, the ones with the largest boxes.  The marking scanner leaves no
\* face of a frame out, so for it the claim is the bound on the faces the
\* running callback has processed.
C30_AtMostMaxFaces == Len(cbDone) <= MAX_FACES


(***************************************************************************)
(* POST /api/v1/face/register and the face_embeddings table.               *)
(***************************************************************************)
MaxEmb == 3         \* rows of face_embeddings

\* The embedding of a request body: an array of numbers, or something else.
Descriptor(v) == [arr |-> TRUE, v |-> v]
NotArray == [arr |-> FALSE, v |-> ""]

\* A row of face_embeddings: student_id INT NOT NULL, embedding LONGTEXT
\* holding JSON.stringify(embedding).  The table has no unique key besides
\* its AUTO_INCREMENT id, which is the row's position here.
EmbRow(sid, emb) == [student_id |-> DbStudentId(sid), embedding |-> emb.v]

\* Mutant: one descriptor per student, a registration replacing the last.
RegisterHandle_Replace(tbl, sid, emb, db) ==
    IF ~Truthy(sid) \/ ~emb.arr THEN <<400, tbl>>
    ELSE IF ~db \/ ~DbAccepts(sid) THEN <<500, tbl>>
    ELSE <<200, Append(SelectSeq(tbl, LAMBDA x : x.student_id # DbStudentId(sid)),
                       EmbRow(sid, emb))>>

\* The handler for an authenticated caller: the answer and the table after
\* it.  The optional UPDATE of the student's flags touches no descriptor
\* and its failure is caught.
RegisterHandle(tbl, sid, emb, db) ==
    IF ~Truthy(sid) \/ ~emb.arr THEN <<400, tbl>>
    ELSE IF ~db \/ ~DbAccepts(sid) THEN <<500, tbl>>
    ELSE <<200, Append(tbl, EmbRow(sid, emb))>>

RegisterIds == {Num(1), Str("3"), Num(0), Undefined, Str("x")}
RegisterEmbeddings == {Descriptor("d1"), Descriptor("d2"), NotArray}

\* One call of POST /face/register that completes before the next starts.
RegisterCall(sid, emb) ==
    LET r == RegisterHandle(faceEmbeddings, sid, emb, dbOk)
    IN  /\ Len(r[2]) <= MaxEmb
        /\ faceEmbeddings' = r[2]
        /\ lastCall' = [NoCall EXCEPT !.raw = sid, !.code = r[1], !.db = dbOk,
                                      !.changed = (r[2] # faceEmbeddings)]
        /\ UNCHANGED <<now, net, dbOk, store, reqs, pageVars, lastDet, lastRet,
                       lastSync, lastFlush, srmDurable,
                       srmQueue, detectionsInterval, stream1, lastScan, steps1,
                       faceMatcher1, lostStreams1, frameVars, studentRows, lastAdd,
                       embQueue, embSync>>

\* The descriptors of a student.
DescriptorsOf(tbl, n) == SelectSeq(tbl, LAMBDA x : x.student_id = n)

IsPrefix(s, t) == Len(s) <= Len(t) /\ SubSeq(t, 1, Len(s)) = s

(***************************************************************************)
(* POST /api/v1/students, the students table, and addStudent of the page.  *)
(***************************************************************************)
MaxStudents == 3    \* rows of students

\* The students table as ensureTables creates it: id is the primary key
\* and roll VARCHAR(100) carries no unique index.
RollUniqueKey == FALSE

\* AUTO_INCREMENT of a table no row is deleted from.
InsertId(tbl) ==
    IF Len(tbl) = 0 THEN 1
    ELSE 1 + CHOOSE m \in {tbl[i].id : i \in 1..Len(tbl)} :
                 \A i \in 1..Len(tbl) : tbl[i].id <= m

\* The rows whose roll is the given one.
RowsWithRoll(tbl, roll) == {i \in 1..Len(tbl) : tbl[i].roll = roll}

\* The handler for a body with a name and a roll: the answer, the table
\* after it and the id of the answer.  ER_DUP_ENTRY is raised by a unique
\* key only.
StudentsHandle(tbl, roll, db) ==
    IF ~db THEN <<500, tbl, 0>>
    ELSE IF RollUniqueKey /\ RowsWithRoll(tbl, roll) # {} THEN <<409, tbl, 0>>
    ELSE <<200, Append(tbl, [id |-> InsertId(tbl), roll |-> roll]), InsertId(tbl)>>

\* listStudents().find(s => String(s.roll).trim() === roll): GET /students
\* answers the rows by descending id; 0 for no such student.
FindByRoll(tbl, roll) ==
    IF RowsWithRoll(tbl, roll) = {} THEN 0
    ELSE LET ids == {tbl[i].id : i \in RowsWithRoll(tbl, roll)}
         IN  CHOOSE m \in ids : \A x \in ids : x <= m

\* What addStudent returns for an answer of the server: the id of the
\* answer, the id of the student with the roll after a duplicate error for
\* a roll that is not empty, and 0 when it throws.
AddStudentResult(code, id, tbl, roll, db) ==
    IF RespOk(code) THEN id
    ELSE IF code = 409 /\ roll # "" /\ db THEN FindByRoll(tbl, roll)
    ELSE 0

Rolls == {"R1", "R2", ""}

\* One call of addStudent of the page with the server reachable, the
\* request and its answer included.
AddStudentCall(roll) ==
    LET r == StudentsHandle(studentRows, roll, dbOk)
    IN  /\ Len(r[2]) <= MaxStudents
        /\ studentRows' = r[2]
        /\ lastAdd' = [roll |-> roll, code |-> r[1],
                       ret |-> AddStudentResult(r[1], r[3], r[2], roll, dbOk),
                       before |-> studentRows, after |-> r[2]]
        /\ UNCHANGED <<now, net, dbOk, store, reqs, pageVars, logVars, srmDurable,
                       srmQueue, detectionsInterval, stream1, lastScan, steps1,
                       faceMatcher1, lostStreams1, frameVars, faceEmbeddings,
                       embQueue, embSync>>

\* The two endpoints called one call at a time, and the database.
NextAdmin ==
    \/ \E sid \in RegisterIds, emb \in RegisterEmbeddings : RegisterCall(sid, emb)
    \/ \E roll \in Rolls : AddStudentCall(roll)
    \/ DbDown
    \/ DbUp

SpecAdmin == Init /\ [][NextAdmin]_vars

\* C31: POST /face/register only ever appends to face_embeddings.  A call
\* with a falsy student_id or an embedding that is no array is answered
\* 400 and adds no row; a call with a student_id the column accepts and an
\* array embedding, the database up, is answered 200; a call answered 200
\* appends exactly one row, the descriptor sent for the student sent, and
\* leaves every other row as it was, so that the student has one descriptor
\* more than before; no other answer changes the table.
C31_RegisterAdditive ==
    [][/\ IsPrefix(faceEmbeddings, faceEmbeddings')
       /\ \A sid \in RegisterIds, emb \in RegisterEmbeddings :
            RegisterCall(sid, emb) =>
              /\ (~Truthy(sid) \/ ~emb.arr) => lastCall'.code = 400
              /\ (Truthy(sid) /\ emb.arr /\ dbOk /\ DbAccepts(sid))
                    => lastCall'.code = 200
              /\ lastCall'.code = 200
                    => /\ faceEmbeddings' =
                            Append(faceEmbeddings,
                                   [student_id |-> ToNumber(sid).n, embedding |-> emb.v])
                       /\ Len(DescriptorsOf(faceEmbeddings', ToNumber(sid).n))
                            = Len(DescriptorsOf(faceEmbeddings, ToNumber(sid).n)) + 1
              /\ lastCall'.code # 200 => faceEmbeddings' = faceEmbeddings]_vars

\* Student 1 has been registered twice and student 3 once in between, and
\* a call without an array has just been answered 400.
C31_Witness ==
    /\ Len(faceEmbeddings) = 3
    /\ Len(DescriptorsOf(faceEmbeddings, 1)) = 2
    /\ faceEmbeddings[2].student_id = 3
    /\ faceEmbeddings[1].embedding = "d1"
    /\ faceEmbeddings[3].embedding = "d2"
    /\ lastCall.code = 400
    /\ lastCall.raw = Num(1)

\* C32: a call of addStudent with a roll, not empty, that a student has
\* is answered 409 by POST /students, inserts no row, and returns the id
\* of the student that has the roll.
C32_DuplicateRollRejected ==
    [][\A roll \in Rolls :
         (AddStudentCall(roll) /\ dbOk /\ roll # "" /\ RowsWithRoll(studentRows, roll) # {})
            => /\ lastAdd'.code = 409
               /\ studentRows' = studentRows
               /\ lastAdd'.ret = FindByRoll(studentRows, roll)]_vars


(***************************************************************************)
(* SpecFlushLive: the marking scanner and the flush of its queue, with     *)
(* the steps that are bound to happen.  syncOfflineQueue is a function of  *)
(* the window that is called again and again; a request that reaches the   *)
(* server is answered; a promise that settles resumes the function that    *)
(* awaits it.                                                              *)
(***************************************************************************)
NextFlushLive ==
    \/ Tick
    \/ NetDown
    \/ NetUp
    \/ \E camOk, playOk \in BOOLEAN : StartCameraAndDetect(camOk, playOk)
    \/ \E l \in Labels, dist \in Distances : MarkAttendanceForLabel(l, dist)
    \/ \E r \in ReqIds : NetFail(r)
    \/ \E r \in ReqIds : ServeMarkSelect(r)
    \/ \E r \in ReqIds : ServeMarkInsert(r)
    \/ \E r \in ReqIds : MarkReturn(r)
    \/ FlushStart
    \/ \E r \in ReqIds : ServeSync(r)
    \/ \E r \in ReqIds : FlushReturn(r)

FairFlushLive ==
    /\ WF_vars(FlushStart)
    /\ \A r \in ReqIds :
          /\ WF_vars(NetFail(r))
          /\ WF_vars(ServeMarkSelect(r))
          /\ WF_vars(ServeMarkInsert(r))
          /\ WF_vars(MarkReturn(r))
          /\ WF_vars(ServeSync(r))
          /\ WF_vars(FlushReturn(r))

SpecFlushLive == Init /\ [][NextFlushLive]_vars /\ FairFlushLive

\* C33: when the server stays reachable from some time on and the flush
\* is called again and again, the offline queue is empty again and again,
\* whatever records it holds, those of an unresolved label included.
C33_QueueEventuallyEmpty ==
    <>[](net /\ dbOk) => []<>(queue = <<>>)


\* C34: with the IndexedDB store of db.js behind window.srmDB, a scan step
\* whose batch request failed, by a fetch that threw or by an answer
\* outside 200..299, leaves every record of the batch in the store, behind
\* the records the store held, also when records of the batch carry the
\* same timestamp: getAll returns every record handed to add.
C34_FailedBatchFullyQueued ==
    [][\A r \in ReqIds :
         (Return1(r) /\ srmDurable /\ ~(reqs[r].st = "done" /\ RespOk(reqs[r].code)))
            => /\ IsPrefix(srmQueue, srmQueue')
               /\ \A i \in 1..Len(reqs[r].recs) :
                     \E j \in 1..Len(SrmGetAll(srmQueue')) :
                        SrmGetAll(srmQueue')[j] = reqs[r].recs[i]]_vars


\* The camera streams whose tracks are live: the one the page refers to
\* and those it has let go of without stopping them.
StreamsHeld == (IF stream = "live" THEN 1 ELSE 0) + lostStreams

StreamsHeld1 == (IF stream1 = "live" THEN 1 ELSE 0) + lostStreams1

\* C35: at any time each scanner holds at most one live camera stream,
\* also after a start that was triggered while the loop was running.
C35_OneStreamHeld ==
    StreamsHeld <= 1 /\ StreamsHeld1 <= 1


(***************************************************************************)
(* SpecFlushOrder: the marking scanner filling its queue and every call    *)
(* of syncOfflineQueue, those on an empty queue included.                  *)
(***************************************************************************)
\* What lastFlush holds after a call that found the queue empty and
\* returned { synced: 0 }.
EmptyFlush == [ok |-> TRUE, n |-> 0, before |-> 0, left |-> 0]

\* syncOfflineQueue up to its await or, on an empty queue, to its return.
ObservedFlushStart ==
    \/ /\ Len(queue) = 0
       /\ lastFlush' = EmptyFlush
       /\ UNCHANGED <<captureVars, now, net, dbOk, store, reqs, labelToStudentId,
                      faceMatcher, detectInterval, recentMarks, queue, sessionMarked,
                      lastCall, lastDet, lastRet, lastSync>>
    \/ FlushStart

NextFlushOrder ==
    \/ Tick
    \/ NetDown
    \/ NetUp
    \/ \E camOk, playOk \in BOOLEAN : StartCameraAndDetect(camOk, playOk)
    \/ \E l \in Labels, dist \in Distances : MarkAttendanceForLabel(l, dist)
    \/ \E r \in ReqIds : NetFail(r)
    \/ \E r \in ReqIds : ServeMarkSelect(r)
    \/ \E r \in ReqIds : ServeMarkInsert(r)
    \/ \E r \in ReqIds : MarkReturn(r)
    \/ ObservedFlushStart
    \/ \E r \in ReqIds : ServeSync(r)
    \/ \E r \in ReqIds : FlushReturn(r)

SpecFlushOrder == Init /\ [][NextFlushOrder]_vars

\* The flush requests in flight.
FlushRequests(rs) == {r \in ReqIds : rs[r].owner = "flush"}

\* C36: a call of syncOfflineQueue on an empty queue sends no request and
\* leaves the queue and the table as they were; a call on a queue that is
\* not empty sends one sync request whose records are the queue, first
\* queued first; and the queue grows at its end only, so that its order is
\* the order of the enqueues.
C36_FlushInOrder ==
    [][/\ (ObservedFlushStart /\ Len(queue) = 0)
             => UNCHANGED <<reqs, queue, store>>
       /\ (ObservedFlushStart /\ Len(queue) > 0)
             => /\ \E r \in FlushRequests(reqs') \ FlushRequests(reqs) :
                      /\ reqs'[r].kind = "sync"
                      /\ reqs'[r].shape = "records"
                      /\ reqs'[r].recs = queue
                      /\ \A x \in ReqIds \ {r} : reqs'[x] = reqs[x]
                /\ UNCHANGED <<queue, store>>
       /\ \A l \in Labels, dist \in Distances :
             (MarkAttendanceForLabel(l, dist) /\ queue' # queue)
                => /\ Len(queue') = Len(queue) + 1
                   /\ IsPrefix(queue, queue')
                   /\ queue'[Len(queue')].roll_number = l
       /\ \A r \in ReqIds :
             (MarkReturn(r) /\ queue' # queue)
                => /\ Len(queue') = Len(queue) + 1
                   /\ IsPrefix(queue, queue')
                   /\ queue'[Len(queue')].timestamp = reqs[r].recs[1].timestamp]_vars

\* A call on the empty queue has returned, two records have been queued
\* since, the first before the second, and the flush that followed has the
\* two in flight in that order.
C36_Witness ==
    /\ lastFlush = EmptyFlush
    /\ Len(queue) = 2
    /\ queue[1].timestamp < queue[2].timestamp
    /\ \E r \in ReqIds :
          /\ reqs[r].owner = "flush"
          /\ reqs[r].st = "sent"
          /\ reqs[r].recs = queue


(***************************************************************************)
(* The add-student page: postEmbedding, the queue of pending embeddings    *)
(* in localStorage, and trySyncEmbQueue.                                   *)
(***************************************************************************)
MaxEmbQueue == 2    \* items of the pending-embedding queue

\* What the add-student page neither reads nor writes, the clock included.
nonEmbVars ==
    <<now, store, pageVars, logVars, srmDurable, srmQueue, detectionsInterval,
      stream1, lastScan, steps1, faceMatcher1, lostStreams1, frameVars,
      studentRows, lastAdd>>

\* { student_id: Number(studentId), embedding: descriptor }
EmbItem(id, v) == [student_id |-> Num(id), embedding |-> Descriptor(v)]

EmbItems == {EmbItem(1, "d1"), EmbItem(3, "d2")}

\* POST /face/register on a request in flight.
ServeRegister(r) ==
    /\ reqs[r].kind = "register"
    /\ reqs[r].st = "sent"
    /\ net
    /\ LET item == reqs[r].recs[1]
           res == RegisterHandle(faceEmbeddings, item.student_id, item.embedding, dbOk)
       IN  /\ Len(res[2]) <= MaxEmb
           /\ faceEmbeddings' = res[2]
           /\ reqs' = Answer(r, res[1])
    /\ UNCHANGED <<nonEmbVars, net, dbOk, embQueue, embSync>>

\* postEmbedding of the submit handler up to its await, for a descriptor
\* that was computed; one submit at a time.
PostEmbedding(item) ==
    /\ FreeSlots # {}
    /\ \A r \in ReqIds : reqs[r].owner # "post"
    /\ reqs' = [reqs EXCEPT ![NewSlot] = Request("register", "post", "object", <<item>>, "")]
    /\ UNCHANGED <<nonEmbVars, net, dbOk, faceEmbeddings, embQueue, embSync>>

\* postEmbedding after its await: res.ok returns true, any other answer
\* and a fetch that threw push the item on the stored queue.
PostEmbeddingReturn(r) ==
    /\ reqs[r].owner = "post"
    /\ reqs[r].st \in {"done", "failed"}
    /\ embQueue' = IF reqs[r].st = "done" /\ RespOk(reqs[r].code) THEN embQueue
                   ELSE Append(embQueue, reqs[r].recs[1])
    /\ Len(embQueue') <= MaxEmbQueue
    /\ reqs' = [reqs EXCEPT ![r] = NoReq]
    /\ UNCHANGED <<nonEmbVars, net, dbOk, faceEmbeddings, embSync>>

\* trySyncEmbQueue up to its loop, called by a page load when no earlier
\* run is under way: q is the stored queue as read now, and an empty q
\* ends the run at once.  rows0 logs the size of face_embeddings.
EmbSyncStart ==
    /\ embSync.st \in {"idle", "done"}
    /\ Len(embQueue) > 0
    /\ embSync' = [st |-> "loop", q |-> embQueue, remain |-> <<>>, oks |-> <<>>,
                   rows0 |-> Len(faceEmbeddings)]
    /\ UNCHANGED <<nonEmbVars, net, dbOk, reqs, faceEmbeddings, embQueue>>

\* One pass of the loop up to its await: the POST of the next item of q.
EmbSyncPost ==
    /\ embSync.st = "loop"
    /\ Len(embSync.oks) < Len(embSync.q)
    /\ FreeSlots # {}
    /\ reqs' = [reqs EXCEPT ![NewSlot] =
                   Request("register", "embsync", "object",
                           <<embSync.q[Len(embSync.oks) + 1]>>, "")]
    /\ embSync' = [embSync EXCEPT !.st = "await"]
    /\ UNCHANGED <<nonEmbVars, net, dbOk, faceEmbeddings, embQueue>>

\* Mutant: every item is pushed on remain.
RemainAfter_All(remain, item, ok) == Append(remain, item)

\* The catch of a pass: an item whose POST threw or was not answered ok
\* is pushed on remain.
RemainAfter(remain, item, ok) == IF ok THEN remain ELSE Append(remain, item)

\* The pass after its await; oks logs whether the item was accepted.
EmbSyncReturn(r) ==
    /\ reqs[r].owner = "embsync"
    /\ reqs[r].st \in {"done", "failed"}
    /\ LET ok == reqs[r].st = "done" /\ RespOk(reqs[r].code)
       IN  embSync' = [embSync EXCEPT
                          !.st = "loop",
                          !.remain = RemainAfter(embSync.remain, reqs[r].recs[1], ok),
                          !.oks = Append(embSync.oks, ok)]
    /\ reqs' = [reqs EXCEPT ![r] = NoReq]
    /\ UNCHANGED <<nonEmbVars, net, dbOk, faceEmbeddings, embQueue>>

\* The loop is over: writeEmbQueue(remain).
EmbSyncEnd ==
    /\ embSync.st = "loop"
    /\ Len(embSync.oks) = Len(embSync.q)
    /\ embQueue' = embSync.remain
    /\ embSync' = [embSync EXCEPT !.st = "done"]
    /\ UNCHANGED <<nonEmbVars, net, dbOk, reqs, faceEmbeddings>>

\* The items of q at the positions where keep holds, in the order of q.
KeepWhere(q, keep) ==
    LET idx == {i \in 1..Len(q) : keep[i]}
    IN  [k \in 1..Cardinality(idx) |->
            q[CHOOSE i \in idx : Cardinality({j \in idx : j <= i}) = k]]

(***************************************************************************)
(* SpecEmbSeq: the page submits and syncs, one after the other: no submit  *)
(* posts its embedding while a run of trySyncEmbQueue is under way, and no *)
(* run starts while a submit awaits its POST.                              *)
(***************************************************************************)
NextEmbSeq ==
    \/ NetDown
    \/ NetUp
    \/ DbDown
    \/ DbUp
    \/ \E item \in EmbItems : embSync.st \in {"idle", "done"} /\ PostEmbedding(item)
    \/ \E r \in ReqIds : PostEmbeddingReturn(r)
    \/ (\A r \in ReqIds : reqs[r].owner # "post") /\ EmbSyncStart
    \/ EmbSyncPost
    \/ \E r \in ReqIds : NetFail(r)
    \/ \E r \in ReqIds : ServeRegister(r)
    \/ \E r \in ReqIds : EmbSyncReturn(r)
    \/ EmbSyncEnd

SpecEmbSeq == Init /\ [][NextEmbSeq]_vars

\* C37: when a run of trySyncEmbQueue ends and nothing was queued during
\* it, the stored queue is made of the items of the run whose POST threw
\* or was not answered ok, in the order they had; every other item is gone
\* from the queue and has given face_embeddings exactly one row, in the
\* order of the queue; and the run posted one item at a time, each once.
C37_SyncKeepsFailedOnly ==
    /\ [](/\ Len(embSync.oks) <= Len(embSync.q)
          /\ Cardinality({r \in ReqIds : reqs[r].owner = "embsync"})
                = IF embSync.st = "await" THEN 1 ELSE 0)
    /\ [][(EmbSyncEnd /\ embQueue = embSync.q)
             => /\ embQueue' = KeepWhere(embSync.q, [i \in 1..Len(embSync.q) |-> ~embSync.oks[i]])
                /\ SubSeq(faceEmbeddings', embSync.rows0 + 1, Len(faceEmbeddings'))
                      = [k \in 1..Len(KeepWhere(embSync.q, embSync.oks)) |->
                            [student_id |-> KeepWhere(embSync.q, embSync.oks)[k].student_id.n,
                             embedding |-> KeepWhere(embSync.q, embSync.oks)[k].embedding.v]]]_vars

\* A run over two items has ended: the POST of the first failed and it is
\* the only item of the queue, the second was accepted and has its row.
C37_Witness ==
    /\ embSync.st = "done"
    /\ Len(embSync.q) = 2
    /\ embSync.oks = <<FALSE, TRUE>>
    /\ embQueue = <<embSync.q[1]>>
    /\ embSync.q[1] # embSync.q[2]
    /\ Len(faceEmbeddings) = embSync.rows0 + 1
    /\ faceEmbeddings[Len(faceEmbeddings)].student_id = embSync.q[2].student_id.n


(***************************************************************************)
(* SpecEmb: the page as it runs: trySyncEmbQueue is started by the load    *)
(* and not awaited, and a submit may post its embedding meanwhile.         *)
(***************************************************************************)
NextEmb ==
    \/ NetDown
    \/ NetUp
    \/ DbDown
    \/ DbUp
    \/ \E item \in EmbItems : PostEmbedding(item)
    \/ \E r \in ReqIds : PostEmbeddingReturn(r)
    \/ EmbSyncStart
    \/ EmbSyncPost
    \/ \E r \in ReqIds : NetFail(r)
    \/ \E r \in ReqIds : ServeRegister(r)
    \/ \E r \in ReqIds : EmbSyncReturn(r)
    \/ EmbSyncEnd

SpecEmb == Init /\ [][NextEmb]_vars

\* C38: the items that postEmbedding pushed on the stored queue while a
\* run of trySyncEmbQueue was under way are in the stored queue after the
\* run has written the items it keeps.
C38_ConcurrentEnqueueKept ==
    [][EmbSyncEnd
          => \A k \in (Len(embSync.q) + 1)..Len(embQueue) :
                \E j \in 1..Len(embQueue') : embQueue'[j] = embQueue[k]]_vars

====
